---- MODULE Spec2Model ----
(***************************************************************************)
(* QuestAIsle: one session view (SessionPanel), the turn mutation           *)
(* (useGameTurn), the save writer (useSaveWriter) and the session store     *)
(* (persistSave).  Strings that the code trims are sequences of one-char    *)
(* strings; an optional field is a set with at most one element.            *)
(***************************************************************************)
EXTENDS Integers, Sequences, FiniteSets, TLC

\* ------------------------------------------------------------------ bounds
\* Turns started in one behaviour.
MaxTurns == 3
\* Save-writer operations (rewind, history edit, run-value save) started.
MaxUiOps == 1
\* Turns started in one behaviour of the turn on its own.
MaxTurnsAlone == 5

\* --------------------------------------------------------------- constants
MAX_MEMORIES == 50
DEFAULT_WINDOW == 4
MIN_WINDOW == 1
MAX_WINDOW == 10

NoSave == [none |-> TRUE]
NotLoaded == [notLoaded |-> TRUE]
NoResult == [noResult |-> TRUE]
NoOp == [noOp |-> TRUE]

\* ------------------------------------------------------------ small helpers
Max2(a, b) == IF a >= b THEN a ELSE b
Min2(a, b) == IF a <= b THEN a ELSE b

\* obj[k] = v on a JavaScript object (adds the key when it is missing)
Put(f, k, v) == [x \in (DOMAIN f) \cup {k} |-> IF x = k THEN v ELSE f[x]]
\* delete obj[k]
Del(f, k) == [x \in (DOMAIN f) \ {k} |-> f[x]]
\* obj[k], undefined when the key is missing
Get(f, k) == IF k \in DOMAIN f THEN {f[k]} ELSE {}

SeqRange(s) == {s[i] : i \in 1..Len(s)}

RECURSIVE TrimStart(_)
TrimStart(s) ==
    IF s = <<>> THEN <<>>
    ELSE IF Head(s) = " " THEN TrimStart(Tail(s)) ELSE s

RECURSIVE TrimEnd(_)
TrimEnd(s) ==
    IF s = <<>> THEN <<>>
    ELSE IF s[Len(s)] = " " THEN TrimEnd(SubSeq(s, 1, Len(s) - 1)) ELSE s

\* String.prototype.trim
Trim(s) == TrimEnd(TrimStart(s))

\* ----------------------------------------------------------- the template
\* The active template: one tracked integer with bounds and a default.
Template ==
    [valueDefinitions |->
        << [id |-> "hp", type |-> "integer", min |-> {0}, max |-> {2},
            defaultValue |-> {1}] >>]

\* The run-only definition a user can add to one save.
LuckDef == [id |-> "luck", type |-> "integer", min |-> {}, max |-> {},
            defaultValue |-> {}]

getFallbackValue(type) == 0

\* coerceValueForType for the numeric types; value is {} for undefined
coerceValueForType(def, value) ==
    IF value = {} THEN
        (IF def.defaultValue # {} THEN CHOOSE d \in def.defaultValue : TRUE
         ELSE getFallbackValue(def.type))
    ELSE
        LET candidate == CHOOSE v \in value : TRUE
            lo == IF def.min # {}
                  THEN Max2(candidate, CHOOSE m \in def.min : TRUE)
                  ELSE candidate
            hi == IF def.max # {}
                  THEN Min2(lo, CHOOSE m \in def.max : TRUE)
                  ELSE lo
        IN hi

buildInitialValues(template) ==
    LET defs == template.valueDefinitions
    IN [id \in {defs[i].id : i \in 1..Len(defs)} |->
          LET def == CHOOSE d \in SeqRange(defs) : d.id = id
          IN coerceValueForType(def,
                IF def.defaultValue # {} THEN def.defaultValue
                ELSE {getFallbackValue(def.type)})]

\* buildEffectiveTemplate: template definitions, then the session-only ones
\* whose id the template does not already use.
RECURSIVE MergeDefs(_, _)
MergeDefs(merged, sessionDefs) ==
    IF sessionDefs = <<>> THEN merged
    ELSE LET def == Head(sessionDefs)
         IN IF \E i \in 1..Len(merged) : merged[i].id = def.id
            THEN MergeDefs(merged, Tail(sessionDefs))
            ELSE MergeDefs(Append(merged, def), Tail(sessionDefs))

buildEffectiveTemplate(template, save) ==
    IF save = NoSave \/ save.sessionValueDefinitions = <<>> THEN template
    ELSE [valueDefinitions |->
            MergeDefs(template.valueDefinitions, save.sessionValueDefinitions)]

\* mutant: a batch update that stores a change to an unknown id as it is
RECURSIVE applyChangesToValues_noSkip(_, _, _)
applyChangesToValues_noSkip(template, currentValues, changes) ==
    IF changes = <<>> THEN currentValues
    ELSE LET change == Head(changes)
             defs == template.valueDefinitions
             found == {i \in 1..Len(defs) : defs[i].id = change.valueId}
         IN applyChangesToValues_noSkip(template,
                Put(currentValues, change.valueId,
                    IF found = {} THEN change.next
                    ELSE coerceValueForType(
                            defs[CHOOSE i \in found : \A j \in found : i <= j],
                            {change.next})),
                Tail(changes))

\* applyChangesToValues: unknown ids are skipped, later changes win
RECURSIVE applyChangesToValues(_, _, _)
applyChangesToValues(template, currentValues, changes) ==
    IF changes = <<>> THEN currentValues
    ELSE LET change == Head(changes)
             defs == template.valueDefinitions
             found == {i \in 1..Len(defs) : defs[i].id = change.valueId}
         IN IF found = {}
            THEN applyChangesToValues(template, currentValues, Tail(changes))
            ELSE applyChangesToValues(template,
                    Put(currentValues, change.valueId,
                        coerceValueForType(
                            defs[CHOOSE i \in found : \A j \in found : i <= j],
                            {change.next})),
                    Tail(changes))

\* --------------------------------------------------------- memory reconciler
\* crypto.randomUUID(): an id no entry and no id in use carries
RECURSIVE FreshId(_, _)
FreshId(inUse, n) ==
    LET cand == <<"#">> \o [i \in 1..n |-> "i"]
    IN IF cand \in inUse THEN FreshId(inUse, n + 1) ELSE cand

randomUUID(inUse) == FreshId(inUse, 0)

\* x ?? d for an optional field
OrElse(opt, d) == IF opt = {} THEN d ELSE CHOOSE v \in opt : TRUE

FilterOutId(list, id) == SelectSeq(list, LAMBDA entry : entry.id # id)

\* new Date().toISOString() at the call, and the time stored entries were made
now == "now"
Earlier == "earlier"

\* mutant: an add that keeps the incoming id although an entry holds it
applyMemoryChange_keepIncomingId(acc, change) ==
    IF change.op = "add" /\ Trim(OrElse(change.text, <<>>)) # <<>>
          /\ Trim(OrElse(change.id, <<>>)) # <<>>
    THEN [updated |-> Append(acc.updated,
                        [id |-> Trim(OrElse(change.id, <<>>)),
                         text |-> Trim(OrElse(change.text, <<>>)),
                         tags |-> OrElse(change.tags, <<>>),
                         createdAt |-> now, updatedAt |-> now]),
          ids |-> acc.ids \cup {Trim(OrElse(change.id, <<>>))}]
    ELSE acc

\* mutant: an update that stamps every entry, whether or not its id matches
applyMemoryChange_stampAll(acc, change) ==
    IF change.op = "update" /\ Trim(OrElse(change.id, <<>>)) # <<>>
    THEN [updated |-> [i \in 1..Len(acc.updated) |->
                          [acc.updated[i] EXCEPT !.updatedAt = now]],
          ids |-> acc.ids]
    ELSE acc

\* one pass of the loop body of applyChangesToMemories over acc = [updated, ids]
applyMemoryChange(acc, change) ==
    IF change.op = "remove" THEN
        LET id == Trim(OrElse(change.id, <<>>))
        IN IF id = <<>> THEN acc
           ELSE [updated |-> FilterOutId(acc.updated, id),
                 ids |-> acc.ids \ {id}]
    ELSE IF change.op = "update" THEN
        LET id == Trim(OrElse(change.id, <<>>))
        IN IF id = <<>> THEN acc
           ELSE [updated |->
                    [i \in 1..Len(acc.updated) |->
                        LET entry == acc.updated[i]
                        IN IF entry.id # id THEN entry
                           ELSE [id |-> entry.id,
                                 text |-> IF Trim(OrElse(change.text, <<>>)) # <<>>
                                          THEN OrElse(change.text, <<>>)
                                          ELSE entry.text,
                                 tags |-> OrElse(change.tags, entry.tags),
                                 createdAt |-> entry.createdAt,
                                 updatedAt |-> now]],
                 ids |-> acc.ids]
    ELSE IF change.op = "add" THEN
        LET trimmedText == Trim(OrElse(change.text, <<>>))
            incoming == Trim(OrElse(change.id, <<>>))
            id == IF incoming = <<>> \/ incoming \in acc.ids
                  THEN randomUUID(acc.ids \cup {e.id : e \in SeqRange(acc.updated)})
                  ELSE incoming
        IN IF trimmedText = <<>> THEN acc
           ELSE [updated |-> Append(acc.updated,
                                [id |-> id, text |-> trimmedText,
                                 tags |-> OrElse(change.tags, <<>>),
                                 createdAt |-> now, updatedAt |-> now]),
                 ids |-> acc.ids \cup {id}]
    ELSE acc

RECURSIVE applyMemoryChanges(_, _)
applyMemoryChanges(acc, changes) ==
    IF changes = <<>> THEN acc
    ELSE applyMemoryChanges(applyMemoryChange(acc, Head(changes)), Tail(changes))

\* mutant: a reconciler without the cap
applyChangesToMemories_noCap(currentMemories, changes) ==
    applyMemoryChanges(
        [updated |-> currentMemories,
         ids |-> {e.id : e \in SeqRange(currentMemories)}],
        changes).updated

\* mutant: a cap that keeps the first entries instead of the last
applyChangesToMemories_keepFirst(currentMemories, changes) ==
    LET done == applyChangesToMemories_noCap(currentMemories, changes)
    IN IF Len(done) > MAX_MEMORIES THEN SubSeq(done, 1, MAX_MEMORIES) ELSE done

applyChangesToMemories(currentMemories, changes) ==
    LET done == applyMemoryChanges(
                    [updated |-> currentMemories,
                     ids |-> {e.id : e \in SeqRange(currentMemories)}],
                    changes).updated
    IN IF Len(done) > MAX_MEMORIES
       THEN SubSeq(done, Len(done) - MAX_MEMORIES + 1, Len(done))
       ELSE done

\* ------------------------------------------------------- provider payloads
MemId1 == <<"m", "1">>
TextA == <<"a">>
TextB == <<"b">>
Blank == <<" ">>

AddChange(id, text) == [op |-> "add", id |-> id, text |-> {text}, tags |-> {}]
RemoveChange(id) == [op |-> "remove", id |-> {id}, text |-> {}, tags |-> {}]
UpdateChange(id, text) == [op |-> "update", id |-> {id}, text |-> {text}, tags |-> {}]

\* Final payloads of the turn request, as extractJsonPayload returns them.
\* narrative is {} when the reply carries none.
WellFormedTurnPayloads ==
    { [narrative |-> {"n"},
       stateChanges |-> << [valueId |-> "hp", next |-> 5] >>,
       memoryChanges |-> << AddChange({MemId1}, TextA) >>],
      [narrative |-> {"n"},
       stateChanges |-> << [valueId |-> "luck", next |-> 1] >>,
       memoryChanges |-> << >>] }

\* Replies that break the response contract: no narrative; an add without text.
MalformedTurnPayloads ==
    { [narrative |-> {},
       stateChanges |-> << [valueId |-> "hp", next |-> 2] >>,
       memoryChanges |-> << AddChange({}, TextB) >>],
      [narrative |-> {"n"},
       stateChanges |-> << >>,
       memoryChanges |-> << AddChange({}, Blank) >>] }

TurnPayloads == WellFormedTurnPayloads \cup MalformedTurnPayloads

\* Final payloads of the consolidation request; memoryChanges is {} when the
\* reply carries none (the schema then defaults it to the empty list).
OverviewPayloads ==
    { [memoryChanges |-> {<< RemoveChange(MemId1), AddChange({}, TextB) >>}],
      [memoryChanges |-> {<< UpdateChange(<<>>, TextA) >>}] }

\* memoryChangeSchema.superRefine
memoryChangeSchemaOk(change) ==
    /\ change.op = "add" => Trim(OrElse(change.text, <<>>)) # <<>>
    /\ change.op \in {"update", "remove"} => Trim(OrElse(change.id, <<>>)) # <<>>

\* mutant: the schema without the superRefine of memoryChangeSchema
stepResultSchemaOk_noRefine(payload) == payload.narrative # {}

\* stepResultSchema.parse succeeds
stepResultSchemaOk(payload) ==
    /\ payload.narrative # {}
    /\ \A i \in 1..Len(payload.memoryChanges) :
          memoryChangeSchemaOk(payload.memoryChanges[i])

\* memoryOverviewResultSchema.parse succeeds
memoryOverviewResultSchemaOk(payload) ==
    LET changes == OrElse(payload.memoryChanges, <<>>)
    IN \A i \in 1..Len(changes) : memoryChangeSchemaOk(changes[i])

\* -------------------------------------------------------------- the store
\* mutant: a persistSave that does not take memories and cursor from the draft
persistSaveRecord_noMemory(draft, base) ==
    [values |-> draft.values,
     memories |-> IF base = NoSave THEN <<>> ELSE base.memories,
     history |-> OrElse(draft.history,
                        IF base = NoSave THEN <<>> ELSE base.history),
     lastMemoryOverviewAtHistoryLen |->
        IF base = NoSave THEN 0 ELSE base.lastMemoryOverviewAtHistoryLen,
     sessionValueDefinitions |->
        OrElse(draft.sessionValueDefinitions,
               IF base = NoSave THEN <<>> ELSE base.sessionValueDefinitions)]

\* persistSave builds the record it writes from the draft and the loaded base
persistSaveRecord(draft, base) ==
    [values |-> draft.values,
     memories |-> OrElse(draft.memories,
                         IF base = NoSave THEN <<>> ELSE base.memories),
     history |-> OrElse(draft.history,
                        IF base = NoSave THEN <<>> ELSE base.history),
     lastMemoryOverviewAtHistoryLen |->
        OrElse(draft.lastMemoryOverviewAtHistoryLen,
               IF base = NoSave THEN 0 ELSE base.lastMemoryOverviewAtHistoryLen),
     sessionValueDefinitions |->
        OrElse(draft.sessionValueDefinitions,
               IF base = NoSave THEN <<>> ELSE base.sessionValueDefinitions)]

\* ------------------------------------------------------------------- state
VARIABLES
    disk,               \* the session record in the store (saves/<id>.json)
    activeSave,         \* App's activeSave, the save prop of SessionPanel
    localSaveOverride,  \* SessionPanel state
    memoryTurnCount,    \* settings.memoryTurnCount, {} while settings load
    pc,                 \* where the turn mutation stands
    save,               \* the save the running mutationFn closed over
    result,             \* runGameTurn's parsed result
    updatedValues, updatedMemories, history, nextCursor,
    aborted,            \* abortController.signal.aborted
    timer,              \* the setTimeout of runWithTimeout
    attempts,           \* runOverviewOnce calls of this turn
    turnBase,           \* what persistSave loaded for the turn's write
    orphan,             \* the turn request left behind by a timeout
    uiOp,               \* the save-writer mutation in flight
    nTurns, nUiOps,
    \* history variables
    undisturbed,        \* no save-writer operation has overlapped a turn so far
    phases,             \* phases this turn entered, in order
    turnWrites,         \* records this turn wrote to the store
    fault,              \* what went wrong in this turn
    diskSansTurn,       \* the stored record as it is without this turn's writes
    overviewLog,        \* consolidation events of this turn
    valuesBefore,       \* step id -> the stored values just before that step
    \* one call of a pure function, looked at on its own
    callArgs,           \* the arguments of the call
    callResult,         \* what the call returned
    nCalls,             \* calls made so far
    stream              \* the runGameTurn call: its reply so far, its handler

turnLocals == <<save, result, updatedValues, updatedMemories, history, nextCursor>>
turnCtl == <<pc, aborted, timer, attempts, turnBase>>
ghosts == <<phases, turnWrites, fault, diskSansTurn, overviewLog, valuesBefore>>
pure == <<callArgs, callResult, nCalls, stream>>
session == <<disk, activeSave, localSaveOverride, memoryTurnCount, turnLocals,
             turnCtl, orphan, uiOp, nTurns, nUiOps, undisturbed, ghosts>>
vars == <<session, pure>>

\* SessionPanel.resolvedSave
resolvedSave == IF localSaveOverride # NoSave THEN localSaveOverride ELSE activeSave

\* useSaveWriter().isPending
saveWriterIsPending == uiOp # NoOp

\* mutant: a handler that never sees the mutation as pending
isPending_never == FALSE

\* useGameTurn(...).isPending
isPending == pc \in {"requesting", "consolidating", "backoff", "persisting"}

MemoryTurnCounts == {{}, {1}, {2}}

\* no runGameTurn call made yet
NoStream == [status |-> "idle", turns |-> 0]

\* nothing selected yet, no mutation in flight
SessionIdle ==
    /\ disk = NoSave
    /\ activeSave = NoSave
    /\ localSaveOverride = NoSave
    /\ pc = "idle"
    /\ save = NoSave
    /\ result = NoResult
    /\ updatedValues = << >>
    /\ updatedMemories = << >>
    /\ history = << >>
    /\ nextCursor = 0
    /\ aborted = FALSE
    /\ timer = "unset"
    /\ attempts = 0
    /\ turnBase = NotLoaded
    /\ orphan = "none"
    /\ uiOp = NoOp
    /\ nTurns = 0
    /\ nUiOps = 0
    /\ undisturbed = TRUE
    /\ phases = << >>
    /\ turnWrites = << >>
    /\ fault = "none"
    /\ diskSansTurn = NoSave
    /\ overviewLog = << >>
    /\ valuesBefore = << >>
    /\ stream = NoStream

NoCall == [noCall |-> TRUE]

Init ==
    /\ SessionIdle
    /\ memoryTurnCount \in MemoryTurnCounts
    /\ callArgs = NoCall
    /\ callResult = NoCall
    /\ nCalls = 0

\* ---------------------------------------------------------------- the turn
\* Math.max(1, Math.min(10, settings?.memoryTurnCount ?? 4))
interval(mtc) == Max2(MIN_WINDOW, Min2(MAX_WINDOW, OrElse(mtc, DEFAULT_WINDOW)))

normalizedCursor(lastCursor, historyLen) == Min2(lastCursor, historyLen)

\* mutant: the comparison made strict
shouldRunOverview_strict(historyLen, lastCursor, mtc) ==
    historyLen - normalizedCursor(lastCursor, historyLen) > interval(mtc)

shouldRunOverview(historyLen, lastCursor, mtc) ==
    historyLen - normalizedCursor(lastCursor, historyLen) >= interval(mtc)

\* the Step a turn builds from the parsed result
newStep(id, currentSave, res) ==
    [id |-> id,
     playerAction |-> "a",
     narrative |-> OrElse(res.narrative, ""),
     stateChanges |->
        [i \in 1..Len(res.stateChanges) |->
            [valueId |-> res.stateChanges[i].valueId,
             previous |-> Get(currentSave.values, res.stateChanges[i].valueId),
             next |-> res.stateChanges[i].next]]]

\* mutant: runWithTimeout without the clearTimeout
timerAfterSettle_notCleared == "armed"

\* what the finally block of runWithTimeout leaves of the timer
timerAfterSettle == "cleared"

\* the draft the turn hands to persistSave
turnDraft(values, memories, hist, cursor) ==
    [values |-> values,
     memories |-> {memories},
     history |-> {hist},
     lastMemoryOverviewAtHistoryLen |-> {cursor},
     sessionValueDefinitions |-> {}]

\* mutant: the cursor advanced whether or not an overview result exists
cursorAfterOverview_always(hasResult, normalized, historyLen) == historyLen

\* the cursor the turn persists: advanced only when an overview result exists
cursorAfterOverview(hasResult, normalized, historyLen) ==
    IF hasResult THEN historyLen ELSE normalized

\* mutant: an overview failure propagates and fails the turn
afterOverviewFailure_propagate(attempt, signalAborted) == "throw"

\* mutant: every failure that is not an abort is retried
afterOverviewFailure_retryAlways(attempt, signalAborted) ==
    IF signalAborted THEN "throw" ELSE "backoff"

\* the catch blocks around runOverviewOnce: what follows a failed attempt
afterOverviewFailure(attempt, signalAborted) ==
    IF attempt = 1
    THEN (IF signalAborted THEN "throw" ELSE "backoff")
    ELSE "skip"

\* SavePanel.handleCreateSave: a new run, written without a load
CreateSave ==
    /\ disk = NoSave
    /\ disk' = persistSaveRecord(
                  [values |-> buildInitialValues(Template),
                   memories |-> {}, history |-> {<< >>},
                   lastMemoryOverviewAtHistoryLen |-> {},
                   sessionValueDefinitions |-> {}],
                  NoSave)
    /\ diskSansTurn' = disk'
    /\ UNCHANGED <<activeSave, localSaveOverride, memoryTurnCount, pure, turnLocals,
                   turnCtl, orphan, uiOp, nTurns, nUiOps, undisturbed, phases, turnWrites, valuesBefore,
                   fault, overviewLog>>

\* the saves query refetches after an invalidation
Refetch ==
    /\ disk # NoSave
    /\ activeSave # disk
    /\ activeSave' = disk
    /\ UNCHANGED <<disk, localSaveOverride, memoryTurnCount, pure, turnLocals,
                   turnCtl, orphan, uiOp, nTurns, nUiOps, undisturbed, ghosts>>

\* handleAdvance -> mutate: mutationFn runs up to the await of the race
StartTurn(limit) ==
    /\ resolvedSave # NoSave
    /\ ~isPending
    /\ nTurns < limit
    /\ nTurns' = nTurns + 1
    /\ save' = resolvedSave
    /\ pc' = "requesting"
    /\ aborted' = FALSE
    /\ timer' = "armed"
    /\ attempts' = 0
    /\ turnBase' = NotLoaded
    /\ result' = NoResult
    /\ updatedValues' = << >>
    /\ updatedMemories' = << >>
    /\ history' = << >>
    /\ nextCursor' = 0
    /\ phases' = <<"Requesting">>
    /\ turnWrites' = << >>
    /\ fault' = "none"
    /\ diskSansTurn' = disk
    /\ overviewLog' = << >>
    /\ orphan' = "none"
    /\ undisturbed' = (undisturbed /\ ~saveWriterIsPending)
    /\ UNCHANGED <<disk, activeSave, localSaveOverride, memoryTurnCount, pure,
                   uiOp, nUiOps, valuesBefore>>

Advance == StartTurn(MaxTurns)

\* stream.finalResponse() rejects: the race settles, finally clears the timer
ProviderError ==
    /\ pc = "requesting"
    /\ pc' = "failed"
    /\ timer' = timerAfterSettle
    /\ fault' = "provider"
    /\ phases' = Append(phases, "Failed")
    /\ UNCHANGED <<disk, activeSave, localSaveOverride, memoryTurnCount, pure,
                   turnLocals, aborted, attempts, turnBase, orphan, uiOp,
                   nTurns, nUiOps, undisturbed, turnWrites, valuesBefore, diskSansTurn, overviewLog>>

\* the final response arrives with a payload the schema rejects
ProviderReplyInvalid ==
    /\ pc = "requesting"
    /\ \E payload \in TurnPayloads :
          /\ ~stepResultSchemaOk(payload)
          /\ pc' = "failed"
          /\ timer' = timerAfterSettle
          /\ fault' = IF payload \in MalformedTurnPayloads
                       THEN "schema" ELSE "none"
          /\ phases' = phases \o <<"Validating", "Failed">>
    /\ UNCHANGED <<disk, activeSave, localSaveOverride, memoryTurnCount, pure,
                   turnLocals, aborted, attempts, turnBase, orphan, uiOp,
                   nTurns, nUiOps, undisturbed, turnWrites, valuesBefore, diskSansTurn, overviewLog>>

\* the final response arrives and parses: the mutationFn runs on, through
\* reconciliation, to its next await (the consolidation call or persistSave)
ProviderReply ==
    /\ pc = "requesting"
    /\ \E payload \in TurnPayloads :
          /\ stepResultSchemaOk(payload)
          /\ LET template == buildEffectiveTemplate(Template, save)
                 hist == Append(save.history, newStep(nTurns, save, payload))
                 last == save.lastMemoryOverviewAtHistoryLen
                 due == shouldRunOverview(Len(hist), last, memoryTurnCount)
             IN /\ result' = payload
                /\ fault' = IF payload \in MalformedTurnPayloads
                             THEN "schema" ELSE "none"
                /\ updatedValues' =
                      applyChangesToValues(template, save.values,
                                           payload.stateChanges)
                /\ updatedMemories' =
                      applyChangesToMemories(save.memories,
                                             payload.memoryChanges)
                /\ history' = hist
                /\ nextCursor' = normalizedCursor(last, Len(hist))
                /\ pc' = IF due THEN "consolidating" ELSE "persisting"
                /\ attempts' = IF due THEN 1 ELSE 0
                /\ overviewLog' = IF due THEN <<"call">> ELSE << >>
                /\ phases' = phases \o <<"Validating", "Reconciling">>
                                \o (IF due THEN <<"ConsolidatingMemory">>
                                    ELSE <<"Persisting">>)
    /\ timer' = timerAfterSettle
    /\ UNCHANGED <<disk, activeSave, localSaveOverride, memoryTurnCount, pure, save,
                   aborted, turnBase, orphan, uiOp, nTurns, nUiOps, undisturbed,
                   turnWrites, valuesBefore, diskSansTurn>>

\* the setTimeout callback: abort the token and reject the race
TimeoutFire ==
    /\ timer = "armed"
    /\ timer' = "fired"
    /\ aborted' = TRUE
    /\ IF pc = "requesting"
       THEN /\ pc' = "failed"
            /\ fault' = "timeout"
            /\ phases' = Append(phases, "Failed")
            /\ orphan' = "inflight"
       ELSE UNCHANGED <<pc, fault, phases, orphan>>
    /\ UNCHANGED <<disk, activeSave, localSaveOverride, memoryTurnCount, pure,
                   turnLocals, attempts, turnBase, uiOp, nTurns, nUiOps, undisturbed,
                   turnWrites, valuesBefore, diskSansTurn, overviewLog>>

\* the abandoned turn request settles after the race was lost: nobody awaits it
LateReply ==
    /\ orphan = "inflight"
    /\ orphan' = "settled"
    /\ UNCHANGED <<disk, activeSave, localSaveOverride, memoryTurnCount, pure,
                   turnLocals, turnCtl, uiOp, nTurns, nUiOps, undisturbed, ghosts>>

\* what the mutationFn does once an overview attempt has failed
OverviewFailed(event) ==
    LET next == afterOverviewFailure(attempts, aborted)
    IN /\ overviewLog' = overviewLog \o
                            <<IF aborted THEN "failAborted" ELSE event>>
       /\ IF next = "throw"
          THEN /\ pc' = "failed"
               /\ fault' = "consolidation"
               /\ phases' = Append(phases, "Failed")
               /\ UNCHANGED nextCursor
          ELSE IF next = "backoff"
          THEN /\ pc' = "backoff"
               /\ UNCHANGED <<fault, phases, nextCursor>>
          ELSE /\ pc' = "persisting"
               /\ phases' = Append(phases, "Persisting")
               /\ nextCursor' = cursorAfterOverview(FALSE, nextCursor, Len(history))
               /\ UNCHANGED fault
       /\ UNCHANGED <<disk, activeSave, localSaveOverride, memoryTurnCount, pure,
                      save, result, updatedValues, updatedMemories, history,
                      aborted, timer, attempts, turnBase, orphan, uiOp, nTurns,
                      nUiOps, undisturbed, turnWrites, valuesBefore, diskSansTurn>>

\* client.responses.create rejects
OverviewError ==
    /\ pc = "consolidating"
    /\ OverviewFailed("fail")

\* the consolidation reply arrives
OverviewReply ==
    /\ pc = "consolidating"
    /\ \E payload \in OverviewPayloads :
          IF memoryOverviewResultSchemaOk(payload)
          THEN /\ updatedMemories' =
                     applyChangesToMemories(updatedMemories,
                                            OrElse(payload.memoryChanges, << >>))
               /\ nextCursor' = cursorAfterOverview(TRUE, nextCursor, Len(history))
               /\ pc' = "persisting"
               /\ overviewLog' = Append(overviewLog, "ok")
               /\ phases' = Append(phases, "Persisting")
               /\ UNCHANGED <<disk, activeSave, localSaveOverride,
                              memoryTurnCount, pure, save, result, updatedValues,
                              history, aborted, timer, attempts, turnBase,
                              orphan, uiOp, nTurns, nUiOps, undisturbed, turnWrites, valuesBefore, fault,
                              diskSansTurn>>
          ELSE OverviewFailed("invalid")

\* the 750 ms backoff elapses and runOverviewOnce is called again
BackoffElapsed ==
    /\ pc = "backoff"
    /\ pc' = "consolidating"
    /\ attempts' = attempts + 1
    /\ overviewLog' = overviewLog \o <<"wait", "call">>
    /\ UNCHANGED <<disk, activeSave, localSaveOverride, memoryTurnCount, pure,
                   turnLocals, aborted, timer, turnBase, orphan, uiOp, nTurns,
                   nUiOps, undisturbed, phases, turnWrites, valuesBefore, fault, diskSansTurn>>

\* persistSave of the turn: loadSave(draft.id)
TurnPersistLoad ==
    /\ pc = "persisting"
    /\ turnBase = NotLoaded
    /\ turnBase' = disk
    /\ UNCHANGED <<disk, activeSave, localSaveOverride, memoryTurnCount, pure,
                   turnLocals, pc, aborted, timer, attempts, orphan, uiOp,
                   nTurns, nUiOps, undisturbed, ghosts>>

\* persistSave of the turn: writeJsonRecord, then onSuccess (setQueryData)
TurnPersistWrite ==
    /\ pc = "persisting"
    /\ turnBase # NotLoaded
    /\ LET updatedSave ==
              persistSaveRecord(
                  turnDraft(updatedValues, updatedMemories, history, nextCursor),
                  turnBase)
       IN /\ disk' = updatedSave
          /\ activeSave' = updatedSave
          /\ turnWrites' = Append(turnWrites, updatedSave)
          /\ valuesBefore' = Put(valuesBefore, nTurns, disk.values)
    /\ pc' = "done"
    /\ phases' = Append(phases, "Done")
    /\ UNCHANGED <<localSaveOverride, memoryTurnCount, pure, turnLocals, aborted,
                   timer, attempts, turnBase, orphan, uiOp, nTurns, nUiOps, undisturbed,
                   fault, diskSansTurn, overviewLog>>

\* persistSave of the turn: writeJsonRecord rejects
TurnPersistError ==
    /\ pc = "persisting"
    /\ turnBase # NotLoaded
    /\ pc' = "failed"
    /\ fault' = "store"
    /\ phases' = Append(phases, "Failed")
    /\ UNCHANGED <<disk, activeSave, localSaveOverride, memoryTurnCount, pure,
                   turnLocals, aborted, timer, attempts, turnBase, orphan,
                   uiOp, nTurns, nUiOps, undisturbed, turnWrites, valuesBefore, diskSansTurn, overviewLog>>

\* ------------------------------------------------------ the save writer
\* inner loop of handleConfirmRewind: undo one step's changes, in order
RECURSIVE undoChanges(_, _)
undoChanges(values, changes) ==
    IF changes = <<>> THEN values
    ELSE LET change == Head(changes)
         IN undoChanges(
                IF change.previous = {}
                THEN Del(values, change.valueId)
                ELSE Put(values, change.valueId,
                         CHOOSE v \in change.previous : TRUE),
                Tail(changes))

\* outer loop of handleConfirmRewind: steps from the last down to keepCount
\* (i is the 1-based position of the step undone next)
RECURSIVE rewindValues(_, _, _, _)
rewindValues(values, hist, i, keepCount) ==
    IF i <= keepCount THEN values
    ELSE rewindValues(undoChanges(values, hist[i].stateChanges),
                      hist, i - 1, keepCount)

\* the draft handleConfirmRewind hands to the save writer
rewindDraft(current, stepIndex) ==
    [values |-> rewindValues(current.values, current.history,
                             Len(current.history), stepIndex),
     memories |-> {},
     history |-> {SubSeq(current.history, 1, stepIndex)},
     lastMemoryOverviewAtHistoryLen |-> {},
     sessionValueDefinitions |-> {current.sessionValueDefinitions}]

\* the draft handleSaveHistoryEdit hands to the save writer
historyEditDraft(current, pos) ==
    [values |-> current.values,
     memories |-> {},
     history |-> {[i \in 1..Len(current.history) |->
                     IF i = pos
                     THEN [current.history[i] EXCEPT !.playerAction = "e",
                                                     !.narrative = "e"]
                     ELSE current.history[i]]},
     lastMemoryOverviewAtHistoryLen |-> {},
     sessionValueDefinitions |-> {current.sessionValueDefinitions}]

\* the draft handlePersistRunValues hands to the save writer; drafts maps a
\* value id to the parsed input ({} for a blank input)
runValuesDraft(current, sessionDefsDraft, drafts) ==
    LET defs == buildEffectiveTemplate(Template,
                    [current EXCEPT !.sessionValueDefinitions =
                                        sessionDefsDraft]).valueDefinitions
        ids == {defs[i].id : i \in 1..Len(defs)}
        defOf(id) == defs[CHOOSE i \in 1..Len(defs) :
                            /\ defs[i].id = id
                            /\ \A j \in 1..Len(defs) : defs[j].id = id => i <= j]
        valueFor(id) ==
            LET def == defOf(id)
                parsed == IF id \in DOMAIN drafts THEN drafts[id] ELSE {}
                existing == Get(current.values, id)
                fallback == IF def.defaultValue # {} THEN def.defaultValue
                            ELSE {getFallbackValue(def.type)}
            IN IF parsed = {}
               THEN coerceValueForType(def,
                        IF existing # {} THEN existing ELSE fallback)
               ELSE coerceValueForType(def, parsed)
    IN [values |-> [id \in ids |-> valueFor(id)],
        memories |-> {},
        history |-> {current.history},
        lastMemoryOverviewAtHistoryLen |-> {},
        sessionValueDefinitions |-> {sessionDefsDraft}]

\* What the user left in the run-value editor: the run-only definitions and
\* the parsed inputs ({} for a blank field).
RunValueForms ==
    { [sessionDefsDraft |-> <<LuckDef>>, valueDrafts |-> [id \in {"hp"} |-> {}]],
      [sessionDefsDraft |-> << >>, valueDrafts |-> [id \in {"hp"} |-> {7}]] }

StartUiOp(kind, draft) ==
    /\ uiOp' = [kind |-> kind, draft |-> draft, base |-> NotLoaded]
    /\ nUiOps' = nUiOps + 1
    /\ undisturbed' = IF isPending THEN FALSE ELSE undisturbed
    /\ UNCHANGED <<disk, activeSave, localSaveOverride, memoryTurnCount, pure,
                   turnLocals, turnCtl, orphan, nTurns, ghosts>>

\* handleConfirmRewind up to saveWriter.mutateAsync
ConfirmRewindUpTo(limit) ==
    /\ resolvedSave # NoSave
    /\ ~saveWriterIsPending
    /\ nUiOps < limit
    /\ \E pos \in 1..Len(resolvedSave.history) :
          StartUiOp("rewind", rewindDraft(resolvedSave, pos - 1))

ConfirmRewind == ConfirmRewindUpTo(MaxUiOps)

\* handleSaveHistoryEdit up to saveWriter.mutateAsync
SaveHistoryEditUpTo(limit) ==
    /\ resolvedSave # NoSave
    /\ ~saveWriterIsPending
    /\ nUiOps < limit
    /\ \E pos \in 1..Len(resolvedSave.history) :
          StartUiOp("edit", historyEditDraft(resolvedSave, pos))

SaveHistoryEdit == SaveHistoryEditUpTo(MaxUiOps)

\* handlePersistRunValues up to saveWriter.mutateAsync
PersistRunValuesUpTo(limit) ==
    /\ resolvedSave # NoSave
    /\ ~saveWriterIsPending
    /\ nUiOps < limit
    /\ \E form \in RunValueForms :
          StartUiOp("runValues",
                    runValuesDraft(resolvedSave, form.sessionDefsDraft,
                                   form.valueDrafts))

PersistRunValues == PersistRunValuesUpTo(MaxUiOps)

\* persistSave of the save writer: loadSave(draft.id)
UiLoad ==
    /\ saveWriterIsPending
    /\ uiOp.base = NotLoaded
    /\ uiOp' = [uiOp EXCEPT !.base = disk]
    /\ UNCHANGED <<disk, activeSave, localSaveOverride, memoryTurnCount, pure,
                   turnLocals, turnCtl, orphan, nTurns, nUiOps, undisturbed, ghosts>>

\* persistSave of the save writer: writeJsonRecord, then setLocalSaveOverride
UiWrite ==
    /\ saveWriterIsPending
    /\ uiOp.base # NotLoaded
    /\ LET updated == persistSaveRecord(uiOp.draft, uiOp.base)
       IN /\ disk' = updated
          /\ localSaveOverride' = updated
          /\ diskSansTurn' = updated
    /\ uiOp' = NoOp
    /\ UNCHANGED <<activeSave, memoryTurnCount, pure, turnLocals, turnCtl, orphan,
                   nTurns, nUiOps, undisturbed, phases, turnWrites, valuesBefore, fault, overviewLog>>

\* persistSave of the save writer: writeJsonRecord rejects
UiWriteError ==
    /\ saveWriterIsPending
    /\ uiOp.base # NotLoaded
    /\ uiOp' = NoOp
    /\ UNCHANGED <<disk, activeSave, localSaveOverride, memoryTurnCount, pure,
                   turnLocals, turnCtl, orphan, nTurns, nUiOps, undisturbed, ghosts>>

Next ==
    \/ CreateSave
    \/ Refetch
    \/ Advance
    \/ ProviderError
    \/ ProviderReplyInvalid
    \/ ProviderReply
    \/ TimeoutFire
    \/ LateReply
    \/ OverviewError
    \/ OverviewReply
    \/ BackoffElapsed
    \/ TurnPersistLoad
    \/ TurnPersistWrite
    \/ TurnPersistError
    \/ ConfirmRewind
    \/ SaveHistoryEdit
    \/ PersistRunValues
    \/ UiLoad
    \/ UiWrite
    \/ UiWriteError

Spec == Init /\ [][Next]_vars

\* The turn on its own: no save writer, more turns in a row.
AdvanceAlone == StartTurn(MaxTurnsAlone)

NextTurns ==
    \/ CreateSave
    \/ Refetch
    \/ AdvanceAlone
    \/ ProviderError
    \/ ProviderReplyInvalid
    \/ ProviderReply
    \/ TimeoutFire
    \/ LateReply
    \/ OverviewError
    \/ OverviewReply
    \/ BackoffElapsed
    \/ TurnPersistLoad
    \/ TurnPersistWrite
    \/ TurnPersistError

SpecTurns == Init /\ [][NextTurns]_vars

\* ------------------------------------------- coerceValueForType on raw values
\* A JavaScript value is a record tagged with its type.  A number is held in
\* halves (num = 5 is 2.5); NaN and Infinity are numbers of their own.  The
\* session above uses the instance of coerceValueForType on whole numbers.
Undefined == [t |-> "undefined"]
Null == [t |-> "null"]
NaN == [t |-> "NaN"]
Infinity == [t |-> "Infinity"]
Num(halves) == [t |-> "number", num |-> halves]
Str(s) == [t |-> "string", str |-> s]
Bool(b) == [t |-> "boolean", bool |-> b]
Arr(items) == [t |-> "array", items |-> items]
\* entries: a function from keys to values
Obj(entries) == [t |-> "object", entries |-> entries]
\* the string JSON.stringify(v) returns for an array or an object v
Json(v) == [t |-> "string", json |-> v]

\* typeof x === 'number'
IsNumber(x) == x.t \in {"number", "NaN", "Infinity"}
\* typeof x is 'string', 'number' or 'boolean'
IsScalar(x) == x.t = "string" \/ IsNumber(x) \/ x.t = "boolean"

\* What JavaScript makes of the strings used here: Number(s), and
\* s.trim().toLowerCase().
StringFacts ==
    [s \in {"", " ", "0", "3", "2.5", "9", "abc", " Yes ", "OFF", "Infinity"} |->
        CASE s = ""         -> [number |-> Num(0),  normalized |-> ""]
          [] s = " "        -> [number |-> Num(0),  normalized |-> ""]
          [] s = "0"        -> [number |-> Num(0),  normalized |-> "0"]
          [] s = "3"        -> [number |-> Num(6),  normalized |-> "3"]
          [] s = "2.5"      -> [number |-> Num(5),  normalized |-> "2.5"]
          [] s = "9"        -> [number |-> Num(18), normalized |-> "9"]
          [] s = "abc"      -> [number |-> NaN,     normalized |-> "abc"]
          [] s = " Yes "    -> [number |-> NaN,     normalized |-> "yes"]
          [] s = "OFF"      -> [number |-> NaN,     normalized |-> "off"]
          [] s = "Infinity" -> [number |-> Infinity, normalized |-> "infinity"]]

\* Number(value)
RECURSIVE NumberOf(_)
NumberOf(x) ==
    IF IsNumber(x) THEN x
    ELSE IF x.t = "string" THEN
        (IF "str" \in DOMAIN x THEN StringFacts[x.str].number ELSE NaN)
    ELSE IF x.t = "boolean" THEN (IF x.bool THEN Num(2) ELSE Num(0))
    ELSE IF x.t = "null" THEN Num(0)
    ELSE IF x.t = "array" THEN
        (IF Len(x.items) = 0 THEN Num(0)
         ELSE IF Len(x.items) > 1 THEN NaN
         ELSE LET item == x.items[1]
              IN IF item.t \in {"null", "undefined"} THEN Num(0)
                 ELSE IF item.t = "boolean" THEN NaN
                 ELSE NumberOf(item))
    ELSE NaN

\* Math.trunc
MathTrunc(x) ==
    IF x.t # "number" THEN x
    ELSE IF x.num >= 0 THEN Num((x.num \div 2) * 2)
    ELSE Num(-(((-x.num) \div 2) * 2))

\* !value
Falsy(x) ==
    \/ x.t \in {"undefined", "null", "NaN"}
    \/ x.t = "number" /\ x.num = 0
    \/ x.t = "string" /\ "str" \in DOMAIN x /\ x.str = ""
    \/ x.t = "boolean" /\ ~x.bool

getFallbackValueRaw(type) ==
    IF type = "array" THEN Arr(<< >>)
    ELSE IF type = "object" THEN Obj(<< >>)
    ELSE IF type = "boolean" THEN Bool(FALSE)
    ELSE IF type \in {"integer", "float", "number"} THEN Num(0)
    ELSE Str("")

\* def.defaultValue ?? getFallbackValue(def.type)
resolved(def) == OrElse(def.defaultValue, getFallbackValueRaw(def.type))

toScalar(x) ==
    IF IsScalar(x) THEN x
    ELSE IF x.t \in {"null", "undefined"} THEN Str("")
    ELSE Json(x)

sanitizeArray(x) ==
    IF x.t # "array" THEN Arr(<<toScalar(x)>>)
    ELSE Arr([i \in 1..Len(x.items) |-> toScalar(x.items[i])])

sanitizeObject(x) ==
    IF Falsy(x) \/ x.t # "object"
    THEN Obj([k \in {"value"} |->
                IF x.t = "array" THEN sanitizeArray(x) ELSE toScalar(x)])
    ELSE Obj([k \in DOMAIN x.entries |->
                LET entry == x.entries[k]
                IN IF entry.t = "array"
                   THEN Arr([i \in 1..Len(entry.items) |-> toScalar(entry.items[i])])
                   ELSE IF entry.t = "object" THEN Json(entry)
                   ELSE toScalar(entry)])

\* clampNumber inside coerceValueForType; min and max are in halves
clampNumber(def, candidate) ==
    IF candidate.t # "number" THEN resolved(def)
    ELSE LET lo == IF def.min # {}
                   THEN Max2(candidate.num, CHOOSE m \in def.min : TRUE)
                   ELSE candidate.num
             hi == IF def.max # {}
                   THEN Min2(lo, CHOOSE m \in def.max : TRUE)
                   ELSE lo
         IN Num(hi)

coerceValueForTypeRaw(def, value) ==
    IF value.t \in {"undefined", "null"} THEN resolved(def)
    ELSE IF def.type = "integer" THEN
        LET coerced == MathTrunc(NumberOf(value))
            clamped == clampNumber(def, coerced)
        IN IF IsNumber(clamped) THEN MathTrunc(clamped) ELSE clamped
    ELSE IF def.type \in {"float", "number"} THEN
        clampNumber(def, NumberOf(value))
    ELSE IF def.type = "boolean" THEN
        (IF value.t = "string" /\ "str" \in DOMAIN value
            /\ StringFacts[value.str].normalized \in {"false", "0", "no", "off", ""}
         THEN Bool(FALSE)
         ELSE IF value.t = "string" /\ "str" \in DOMAIN value
            /\ StringFacts[value.str].normalized \in {"true", "1", "yes", "on"}
         THEN Bool(TRUE)
         ELSE Bool(~Falsy(value)))
    ELSE IF def.type = "array" THEN
        LET next == sanitizeArray(value).items
        IN IF def.maxLength # {} /\ (CHOOSE k \in def.maxLength : TRUE) > 0
           THEN Arr(SubSeq(next, 1,
                           Min2(Len(next), CHOOSE k \in def.maxLength : TRUE)))
           ELSE Arr(next)
    ELSE IF def.type = "object" THEN sanitizeObject(value)
    ELSE value

\* Raw inputs: absent and null, numbers, strings, booleans, arrays (with a
\* null and a nested array inside), objects (with an array and a nested object).
RawValues ==
    { Undefined, Null,
      Num(0), Num(2), Num(5), Num(-5), Num(18),
      Str(""), Str(" "), Str("3"), Str("2.5"), Str("9"), Str("abc"),
      Str(" Yes "), Str("OFF"), Str("Infinity"),
      Bool(TRUE), Bool(FALSE),
      Arr(<< >>), Arr(<<Num(6)>>),
      Arr(<<Str("abc"), Null, Arr(<<Num(2)>>)>>),
      Obj(<< >>),
      Obj([k \in {"a", "b"} |->
             IF k = "a" THEN Arr(<<Num(2), Obj(<< >>)>>)
             ELSE Obj([j \in {"c"} |-> Null])]) }

\* Default values a definition may carry (valuePayloadSchema.optional()).
DefaultValues ==
    { {}, {Num(2)}, {Num(5)}, {Num(18)}, {Str("abc")}, {Bool(TRUE)},
      {Arr(<<Str("a"), Str("b"), Str("c")>>)} }

\* Definitions valueDefinitionSchema admits: min and max only on the numeric
\* types (whole for integer, min <= max), maxLength only on array.
ValueDefinitions ==
    { [type |-> "integer", min |-> mn, max |-> mx, maxLength |-> {},
       defaultValue |-> d] :
         mn \in {{}, {0}}, mx \in {{}, {4}}, d \in DefaultValues }
    \cup
    { [type |-> ty, min |-> mn, max |-> mx, maxLength |-> {},
       defaultValue |-> d] :
         ty \in {"float", "number"}, mn \in {{}, {1}}, mx \in {{}, {5}},
         d \in DefaultValues }
    \cup
    { [type |-> "array", min |-> {}, max |-> {}, maxLength |-> k,
       defaultValue |-> d] :
         k \in {{}, {1}, {2}}, d \in DefaultValues }
    \cup
    { [type |-> ty, min |-> {}, max |-> {}, maxLength |-> {},
       defaultValue |-> d] :
         ty \in {"boolean", "string", "text", "object"}, d \in DefaultValues }

InitCoerce ==
    /\ SessionIdle
    /\ memoryTurnCount = {}
    /\ callArgs \in [def : ValueDefinitions, value : RawValues]
    /\ callResult = NoCall
    /\ nCalls = 0

\* coerceValueForType(def, value)
Coerce ==
    /\ nCalls = 0
    /\ callResult' = coerceValueForTypeRaw(callArgs.def, callArgs.value)
    /\ nCalls' = 1
    /\ UNCHANGED <<session, callArgs, stream>>

\* coerceValueForType(def, what the first call returned)
CoerceAgain ==
    /\ nCalls = 1
    /\ callArgs' = [callArgs EXCEPT !.value = callResult]
    /\ callResult' = coerceValueForTypeRaw(callArgs.def, callResult)
    /\ nCalls' = 2
    /\ UNCHANGED <<session, stream>>

NextCoerce ==
    \/ Coerce
    \/ CoerceAgain

SpecCoerce == InitCoerce /\ [][NextCoerce]_vars

\* ------------------------------------------- applyChangesToValues on its own
\* the template alone, and the template with the run-only definition
ActiveTemplates ==
    { Template,
      buildEffectiveTemplate(Template,
          [sessionValueDefinitions |-> <<LuckDef>>]) }

\* stored values: of a new run, with a run-only value, with a key no
\* definition names
StoredValues ==
    { [id \in {"hp"} |-> 1],
      [id \in {"hp", "luck"} |-> IF id = "hp" THEN 0 ELSE 3],
      [id \in {"hp", "old"} |-> IF id = "hp" THEN 2 ELSE 7] }

\* the { valueId, next } pairs a reply may carry ("zz" is in no template)
ValueChanges ==
    { [valueId |-> "hp", next |-> 5], [valueId |-> "hp", next |-> -1],
      [valueId |-> "luck", next |-> 1], [valueId |-> "zz", next |-> 4] }

MaxChanges == 3

ChangeBatches ==
    UNION { [1..n -> ValueChanges] : n \in 0..MaxChanges }

InitValues ==
    /\ SessionIdle
    /\ memoryTurnCount = {}
    /\ callArgs \in [template : ActiveTemplates, currentValues : StoredValues,
                     changes : ChangeBatches]
    /\ callResult = NoCall
    /\ nCalls = 0

\* applyChangesToValues(template, currentValues, changes)
ApplyValues ==
    /\ nCalls = 0
    /\ callResult' = applyChangesToValues(callArgs.template,
                                         callArgs.currentValues,
                                         callArgs.changes)
    /\ nCalls' = 1
    /\ UNCHANGED <<session, callArgs, stream>>

NextValues ==
    \/ ApplyValues

SpecValues == InitValues /\ [][NextValues]_vars

\* ----------------------------------------- applyChangesToMemories on its own
\* the id of the i-th entry of a stored list
EntryId(i) == [j \in 1..(i + 1) |-> IF j = 1 THEN "e" ELSE "1"]

\* a stored list of n entries, as earlier adds left it
StoredMemories(n) ==
    [i \in 1..n |-> [id |-> EntryId(i), text |-> TextA, tags |-> << >>,
                     createdAt |-> Earlier, updatedAt |-> Earlier]]

\* list lengths looked at: empty, one entry, one below the cap, at the cap
StoredLengths == {0, 1, MAX_MEMORIES - 1, MAX_MEMORIES}

\* the memory changes a reply may carry: adds without an id, with an id an
\* entry holds, with a new id (once with blanks around it), with blank text;
\* a remove; updates with text and with blank text; a remove and an update
\* with an id no entry holds, and with a blank id
MemoryChanges ==
    { AddChange({}, TextB),
      AddChange({EntryId(1)}, TextB),
      AddChange({MemId1}, TextA),
      AddChange({Blank \o MemId1 \o Blank}, Blank \o TextB),
      AddChange({}, Blank),
      RemoveChange(EntryId(1)),
      UpdateChange(EntryId(1), TextB),
      UpdateChange(Blank \o EntryId(2), Blank),
      RemoveChange(MemId1),
      RemoveChange(Blank),
      UpdateChange(MemId1, TextB),
      UpdateChange(Blank, TextB) }

MaxBatch == 2

MemoryBatches ==
    UNION { [1..n -> MemoryChanges] : n \in 0..MaxBatch }

InitMemories ==
    /\ SessionIdle
    /\ memoryTurnCount = {}
    /\ callArgs \in [currentMemories : {StoredMemories(n) : n \in StoredLengths},
                     changes : MemoryBatches]
    /\ callResult = NoCall
    /\ nCalls = 0

\* applyChangesToMemories(currentMemories, changes)
ApplyMemories ==
    /\ nCalls = 0
    /\ callResult' = applyChangesToMemories(callArgs.currentMemories,
                                           callArgs.changes)
    /\ nCalls' = 1
    /\ UNCHANGED <<session, callArgs, stream>>

NextMemories ==
    \/ ApplyMemories

SpecMemories == InitMemories /\ [][NextMemories]_vars

\* ------------------------------------- turns, run-value saves and rewinds
\* One session view in which nothing fails and the memory window is left at
\* its default: turns, run-value saves and rewinds only.
MaxHistoryTurns == 2
MaxHistoryUiOps == 2

InitHistory ==
    /\ SessionIdle
    /\ memoryTurnCount = {}
    /\ callArgs = NoCall
    /\ callResult = NoCall
    /\ nCalls = 0

AdvanceHistory == StartTurn(MaxHistoryTurns)

PersistRunValuesHistory == PersistRunValuesUpTo(MaxHistoryUiOps)

ConfirmRewindHistory == ConfirmRewindUpTo(MaxHistoryUiOps)

NextHistory ==
    \/ CreateSave
    \/ Refetch
    \/ AdvanceHistory
    \/ ProviderReply
    \/ TurnPersistLoad
    \/ TurnPersistWrite
    \/ PersistRunValuesHistory
    \/ ConfirmRewindHistory
    \/ UiLoad
    \/ UiWrite

SpecHistory == InitHistory /\ [][NextHistory]_vars

\* ------------------------------------------- previews of the streamed reply
\* A text is a sequence of one-character strings; null is the empty set and a
\* value v that is not null is {v}.
Quote == "\""
Backslash == "\\"

\* jsonText[i], undefined beyond the end
At(jsonText, i) == IF i >= 1 /\ i <= Len(jsonText) THEN jsonText[i] ELSE "undefined"

\* String.prototype.indexOf as a 1-based position, 0 when there is none
indexOf(jsonText, needle) ==
    LET hits == {k \in 1..(Len(jsonText) - Len(needle) + 1) :
                    /\ jsonText[k] = needle[1]
                    /\ jsonText[k + Len(needle) - 1] = needle[Len(needle)]
                    /\ SubSeq(jsonText, k, k + Len(needle) - 1) = needle}
    IN IF hits = {} THEN 0 ELSE CHOOSE k \in hits : \A j \in hits : k <= j

\* while (i < jsonText.length && /\s/.test(jsonText[i])) i++
RECURSIVE skipWhitespace(_, _)
skipWhitespace(jsonText, i) ==
    IF i <= Len(jsonText) /\ jsonText[i] \in {" ", "\n", "\t", "\r"}
    THEN skipWhitespace(jsonText, i + 1)
    ELSE i

\* the opening of the three extractors: key, colon and the opening character;
\* the position after the opening character, 0 where the code returns null
valueStart(jsonText, fieldName, opener) ==
    LET keyNeedle == <<Quote>> \o fieldName \o <<Quote>>
        keyIndex == indexOf(jsonText, keyNeedle)
        colon == skipWhitespace(jsonText, keyIndex + Len(keyNeedle))
        open == skipWhitespace(jsonText, colon + 1)
    IN IF keyIndex = 0 THEN 0
       ELSE IF At(jsonText, colon) # ":" THEN 0
       ELSE IF At(jsonText, open) # opener THEN 0
       ELSE open + 1

\* the switch over the character after a backslash, \u apart
unescape(esc) ==
    CASE esc = "b" -> "<BS>"
      [] esc = "f" -> "\f"
      [] esc = "n" -> "\n"
      [] esc = "r" -> "\r"
      [] esc = "t" -> "\t"
      [] OTHER -> esc

HexDigits == {"0", "1", "2", "3", "4", "5", "6", "7", "8", "9",
              "a", "b", "c", "d", "e", "f", "A", "B", "C", "D", "E", "F"}

\* String.fromCharCode(parseInt(hex, 16)) for the codes the replies use
fromCharCode(hex) ==
    CASE hex = <<"0", "0", "4", "1">> -> "A"
      [] hex = <<"0", "0", "7", "d">> -> "}"
      [] OTHER -> "<U>"

\* mutant: a decoder without escape handling, every character taken as it is
RECURSIVE decodeUntilQuote_keepCutEscape(_, _, _)
decodeUntilQuote_keepCutEscape(jsonText, i, out) ==
    IF i > Len(jsonText) THEN [closed |-> FALSE, cut |-> FALSE, out |-> out, next |-> i]
    ELSE IF jsonText[i] = Quote
    THEN [closed |-> TRUE, cut |-> FALSE, out |-> out, next |-> i + 1]
    ELSE decodeUntilQuote_keepCutEscape(jsonText, i + 1, Append(out, jsonText[i]))

\* the decoding loop of a string literal from position i on: whether the
\* closing quote was met, whether an escape was cut off, the decoded text
RECURSIVE decodeUntilQuote(_, _, _)
decodeUntilQuote(jsonText, i, out) ==
    IF i > Len(jsonText) THEN [closed |-> FALSE, cut |-> FALSE, out |-> out, next |-> i]
    ELSE LET ch == jsonText[i]
         IN IF ch = Quote
            THEN [closed |-> TRUE, cut |-> FALSE, out |-> out, next |-> i + 1]
            ELSE IF ch = Backslash
            THEN IF i + 1 > Len(jsonText)
                 THEN [closed |-> FALSE, cut |-> TRUE, out |-> out, next |-> i]
                 ELSE LET esc == jsonText[i + 1]
                          hex == SubSeq(jsonText, i + 2, Min2(i + 5, Len(jsonText)))
                      IN IF esc = "u"
                         THEN IF Len(hex) < 4 \/ \E k \in 1..Len(hex) : hex[k] \notin HexDigits
                              THEN [closed |-> FALSE, cut |-> TRUE, out |-> out, next |-> i]
                              ELSE decodeUntilQuote(jsonText, i + 6,
                                                    Append(out, fromCharCode(hex)))
                         ELSE decodeUntilQuote(jsonText, i + 2,
                                               Append(out, unescape(esc)))
            ELSE decodeUntilQuote(jsonText, i + 1, Append(out, ch))

extractJsonStringFieldPreview(jsonText, fieldName) ==
    LET i == valueStart(jsonText, fieldName, Quote)
    IN IF i = 0 THEN {} ELSE {decodeUntilQuote(jsonText, i, << >>).out}

\* the loop over the items of extractJsonStringArrayFieldPreview
RECURSIVE scanItems(_, _, _)
scanItems(jsonText, start, items) ==
    LET i == skipWhitespace(jsonText, start)
    IN IF i > Len(jsonText) THEN items
       ELSE IF jsonText[i] = "]" THEN items
       ELSE IF jsonText[i] = "," THEN scanItems(jsonText, i + 1, items)
       ELSE IF jsonText[i] # Quote THEN items
       ELSE LET item == decodeUntilQuote(jsonText, i + 1, << >>)
            IN IF item.closed
               THEN scanItems(jsonText, item.next, Append(items, item.out))
               ELSE items

extractJsonStringArrayFieldPreview(jsonText, fieldName) ==
    LET i == valueStart(jsonText, fieldName, "[")
    IN IF i = 0 THEN {} ELSE {scanItems(jsonText, i, << >>)}

\* ---- the elements a reply's stateChanges may hold: the text the provider
\* sends and the value JSON.parse makes of it (next is kept as its JSON text)
\* the element of the example
ElemHp ==
    [text |-> <<"{", Quote, "v", "a", "l", "u", "e", "I", "d",
        Quote, ":", Quote, "h", "p", Quote, ",", Quote, "n", "e", "x", "t",
        Quote, ":", "5", "}">>,
     value |-> [valueId |-> {<<"h", "p">>}, next |-> {<<"5">>}, reason |-> {}]]
\* braces, a bracket and an escaped quote inside string literals
ElemInStrings ==
    [text |-> <<"{", Quote, "v", "a", "l", "u", "e", "I",
        "d", Quote, ":", Quote, "a", Quote, ",", Quote, "n", "e", "x", "t",
        Quote, ":", Quote, "}", "]", Quote, ",", Quote, "r", "e", "a", "s",
        "o", "n", Quote, ":", Quote, "r", Backslash, Quote, "{", Quote, "}">>,
     value |-> [valueId |-> {<<"a">>}, next |-> {<<Quote, "}", "]", Quote>>}, reason |-> {<<"r", Quote, "{">>}]]
\* a nested object
ElemObject ==
    [text |-> <<"{", Quote, "v", "a", "l", "u", "e", "I", "d",
        Quote, ":", Quote, "o", Quote, ",", Quote, "n", "e", "x", "t", Quote,
        ":", "{", Quote, "k", Quote, ":", "1", "}", "}">>,
     value |-> [valueId |-> {<<"o">>}, next |-> {<<"{", Quote, "k", Quote, ":", "1", "}">>}, reason |-> {}]]
\* an array of scalars
ElemArray ==
    [text |-> <<"{", Quote, "v", "a", "l", "u", "e", "I", "d",
        Quote, ":", Quote, "t", Quote, ",", Quote, "n", "e", "x", "t", Quote,
        ":", "[", "1", ",", "2", "]", "}">>,
     value |-> [valueId |-> {<<"t">>}, next |-> {<<"[", "1", ",", "2", "]">>}, reason |-> {}]]
\* an element without a valueId
ElemNoId ==
    [text |-> <<"{", Quote, "n", "e", "x", "t", Quote, ":", "1",
        "}">>,
     value |-> [valueId |-> {}, next |-> {<<"1">>}, reason |-> {}]]

Elements == {ElemHp, ElemInStrings, ElemObject, ElemArray, ElemNoId}

\* JSON.parse(candidate): the value, or null where it throws
JSONparse(candidate) ==
    {e.value : e \in {d \in Elements : d.text = candidate}}

\* the body of the for loop of extractJsonObjectArrayFieldPreview at position
\* i; st holds objects, inString, escape, depth, currentStart (0 for -1) and
\* whether the function has returned
objectLoopBody(jsonText, i, st) ==
    LET ch == jsonText[i]
        candidate == SubSeq(jsonText, st.currentStart, i)
    IN CASE st.inString /\ st.escape -> [st EXCEPT !.escape = FALSE]
         [] st.inString /\ ~st.escape /\ ch = Backslash -> [st EXCEPT !.escape = TRUE]
         [] st.inString /\ ~st.escape /\ ch = Quote -> [st EXCEPT !.inString = FALSE]
         [] st.inString /\ ~st.escape /\ ch \notin {Backslash, Quote} -> st
         [] ~st.inString /\ ch = Quote -> [st EXCEPT !.inString = TRUE]
         [] ~st.inString /\ ch = "{" ->
               [st EXCEPT !.depth = st.depth + 1,
                          !.currentStart = IF st.depth = 0 THEN i
                                           ELSE st.currentStart]
         [] ~st.inString /\ ch = "}" /\ st.depth = 0 -> st
         [] ~st.inString /\ ch = "}" /\ st.depth > 1 ->
               [st EXCEPT !.depth = st.depth - 1]
         [] ~st.inString /\ ch = "}" /\ st.depth = 1 /\ st.currentStart = 0 ->
               [st EXCEPT !.depth = 0]
         [] ~st.inString /\ ch = "}" /\ st.depth = 1 /\ st.currentStart # 0 ->
               IF JSONparse(candidate) = {}
               THEN [st EXCEPT !.depth = 0, !.returned = TRUE]
               ELSE [st EXCEPT !.depth = 0, !.currentStart = 0,
                               !.objects = Append(st.objects,
                                    CHOOSE v \in JSONparse(candidate) : TRUE)]
         [] ~st.inString /\ ch = "]" -> [st EXCEPT !.returned = TRUE]
         [] OTHER -> st

\* the for loop of extractJsonObjectArrayFieldPreview from position i on
RECURSIVE scanObjects(_, _, _)
scanObjects(jsonText, i, st) ==
    IF i > Len(jsonText) \/ st.returned THEN st.objects
    ELSE scanObjects(jsonText, i + 1, objectLoopBody(jsonText, i, st))

extractJsonObjectArrayFieldPreview(jsonText, fieldName) ==
    LET i == valueStart(jsonText, fieldName, "[")
    IN IF i = 0 THEN {}
       ELSE {scanObjects(jsonText, i,
                [objects |-> << >>, inString |-> FALSE, escape |-> FALSE,
                 depth |-> 0, currentStart |-> 0, returned |-> FALSE])}

\* the field names of the reply
narrativeField == <<"n", "a", "r", "r", "a", "t", "i", "v", "e">>
playerOptionsField == <<"p", "l", "a", "y", "e", "r", "O", "p", "t", "i",
        "o", "n", "s">>
stateChangesField == <<"s", "t", "a", "t", "e", "C", "h", "a", "n", "g", "e",
        "s">>

\* ---- the replies streamed in the runs looked at
\* one unit of a string literal: the characters sent and the character meant
Plain(c) == [text |-> <<c>>, char |-> c]
Escaped(c, meant) == [text |-> <<Backslash, c>>, char |-> meant]
UnicodeA == [text |-> <<Backslash, "u", "0", "0", "4", "1">>, char |-> "A"]

RECURSIVE Join(_, _)
Join(texts, sep) ==
    IF texts = << >> THEN << >>
    ELSE IF Len(texts) = 1 THEN texts[1]
    ELSE texts[1] \o sep \o Join(Tail(texts), sep)

UnitsText(units) == Join([k \in 1..Len(units) |-> units[k].text], << >>)
UnitsMeant(units) == [k \in 1..Len(units) |-> units[k].char]

\* narratives: plain text; text with an escaped quote, a \u escape, an
\* escaped line feed, an escape the code passes through and a brace
Narratives ==
    { << Plain("H"), Plain("i") >>,
      << Plain("a"), Escaped(Quote, Quote), UnicodeA, Escaped("n", "\n"),
         Escaped("q", "q"), Plain("}") >> }

\* player options: two options with a blank one between them; none
OptionLists ==
    { << << Plain(" "), Plain("g"), Plain("o") >>, << Plain(" ") >>,
         << Plain("x"), Escaped(Quote, Quote) >> >>,
      << >> }

ElementLists ==
    { << >>, << ElemHp >>, << ElemHp, ElemInStrings >>, << ElemObject, ElemHp >>,
      << ElemArray, ElemHp >>, << ElemNoId, ElemHp >>,
      << ElemInStrings, ElemObject >> }

\* a reply: narrative and playerOptions may be absent ({})
Replies ==
    { [narrative |-> {n}, playerOptions |-> {o}, stateChanges |-> c] :
        n \in Narratives, o \in OptionLists, c \in ElementLists }
    \cup [narrative : {{}}, playerOptions : {{}}, stateChanges : ElementLists]

\* the text before the narrative's first character, when there is a narrative
NarrativeHead == <<"{", Quote>> \o narrativeField \o <<Quote, ":", Quote>>
\* the text from the narrative's closing quote to the first option
OptionsHead(reply) ==
    IF reply.narrative = {} THEN <<"{">>
    ELSE NarrativeHead \o UnitsText(CHOOSE n \in reply.narrative : TRUE)
            \o <<Quote, ",">>
\* the text up to and including the opening bracket of stateChanges
ChangesHead(reply) ==
    OptionsHead(reply)
    \o (IF reply.playerOptions = {} THEN << >>
        ELSE LET options == CHOOSE o \in reply.playerOptions : TRUE
             IN <<Quote>> \o playerOptionsField \o <<Quote, ":", "[">>
                \o Join([k \in 1..Len(options) |->
                            <<Quote>> \o UnitsText(options[k]) \o <<Quote>>],
                        <<",">>)
                \o <<"]", ",">>)
    \o <<Quote>> \o stateChangesField \o <<Quote, ":", "[">>

\* the whole output text of the reply
ReplyText(reply) ==
    ChangesHead(reply)
    \o Join([k \in 1..Len(reply.stateChanges) |-> reply.stateChanges[k].text],
            <<",">>)
    \o <<"]", "}">>

\* ---- the delta handler of runGameTurn
\* JSON.stringify of a string
RECURSIVE escapeText(_)
escapeText(s) ==
    IF s = << >> THEN << >>
    ELSE (IF Head(s) \in {Quote, Backslash} THEN <<Backslash, Head(s)>>
          ELSE IF Head(s) = "\n" THEN <<Backslash, "n">>
          ELSE <<Head(s)>>) \o escapeText(Tail(s))

JSONstringifyString(s) == <<Quote>> \o escapeText(s) \o <<Quote>>

\* JSON.stringify of an array whose items are already JSON texts
JSONstringifyArray(itemTexts) == <<"[">> \o Join(itemTexts, <<",">>) \o <<"]">>

\* options.map((value) => value.trim()).filter(Boolean)
trimmedOptions(options) ==
    SelectSeq([k \in 1..Len(options) |-> Trim(options[k])],
              LAMBDA option : option # << >>)

\* the map and filter(Boolean) over the extracted state changes
normalizedChanges(changes) ==
    LET kept == SelectSeq(changes,
                    LAMBDA item : item.valueId # {} /\ item.valueId # {<< >>})
    IN [k \in 1..Len(kept) |->
           [valueId |-> CHOOSE v \in kept[k].valueId : TRUE,
            next |-> kept[k].next,
            reason |-> kept[k].reason]]

\* JSON.stringify(normalized.map((c) => [c.valueId, c.next]))
stateChangesKey(normalized) ==
    JSONstringifyArray(
        [k \in 1..Len(normalized) |->
            JSONstringifyArray(
                << JSONstringifyString(normalized[k].valueId),
                   OrElse(normalized[k].next, <<"n", "u", "l", "l">>) >>)])

\* the values the handler computes for the three fields from one snapshot
previewOf(field, snapshotText) ==
    IF field = "narrative"
    THEN extractJsonStringFieldPreview(snapshotText, narrativeField)
    ELSE IF field = "playerOptions"
    THEN {trimmedOptions(o) :
            o \in extractJsonStringArrayFieldPreview(snapshotText, playerOptionsField)}
    ELSE {normalizedChanges(c) :
            c \in extractJsonObjectArrayFieldPreview(snapshotText, stateChangesField)}

\* what the handler compares with the field's last-emitted variable
keyOf(field, preview) ==
    IF field = "narrative" THEN preview
    ELSE IF field = "playerOptions"
    THEN JSONstringifyArray([k \in 1..Len(preview) |-> JSONstringifyString(preview[k])])
    ELSE stateChangesKey(preview)

PreviewFields == <<"narrative", "playerOptions", "stateChanges">>

\* mutant: last-emitted variables kept from one turn to the next
lastEmittedAtStart_processWide ==
    IF "last" \in DOMAIN stream THEN stream.last
    ELSE [field \in SeqRange(PreviewFields) |-> << >>]

\* let lastNarrative = '', lastOptionsKey = '', lastStateChangesKey = ''
lastEmittedAtStart == [field \in SeqRange(PreviewFields) |-> << >>]

\* mutant: an exception of the handler escapes and fails the stream
afterHandlerThrow_escapes == "rejected"

\* the try/catch around the handler's body: the turn's request goes on
afterHandlerThrow == "streaming"

\* the handler's body for the fields from position k on; previews holds what
\* the extractors make of the snapshot, h the last-emitted variables, the
\* callback calls made and the position of the field whose callback raised
RECURSIVE handleFields(_, _, _, _, _)
handleFields(h, k, previews, callbacks, thrower) ==
    IF k > Len(PreviewFields) THEN h
    ELSE LET field == PreviewFields[k]
             preview == previews[k]
             value == CHOOSE v \in preview : TRUE
         IN IF field \notin callbacks \/ preview = {}
               \/ keyOf(field, value) = h.last[field]
            THEN handleFields(h, k + 1, previews, callbacks, thrower)
            ELSE LET called == [h EXCEPT !.last[field] = keyOf(field, value),
                                        !.calls[field] = {value}]
                 IN IF thrower = field
                    THEN [called EXCEPT !.raisedAt = k]
                    ELSE handleFields(called, k + 1, previews, callbacks, thrower)

\* ---- one runGameTurn call after the other, each with its stream of deltas
MaxStreamTurns == 2
\* characters a delta adds to the snapshot
ChunkSizes == {1, 4}

NoCalls == [field \in SeqRange(PreviewFields) |-> {}]

\* the callbacks the caller passed: all three, or none
CallbackSets == {SeqRange(PreviewFields), {}}

\* what the final response parses to
payloadOf(reply) ==
    [narrative |-> {UnitsMeant(n) : n \in reply.narrative},
     playerOptions |->
        {[k \in 1..Len(o) |-> UnitsMeant(o[k])] : o \in reply.playerOptions},
     stateChanges |->
        [k \in 1..Len(reply.stateChanges) |-> reply.stateChanges[k].value]]

\* stepResultSchema.parse succeeds on the final payload
streamedResultOk(payload) ==
    /\ payload.narrative # {}
    /\ \A k \in 1..Len(payload.stateChanges) :
          payload.stateChanges[k].valueId # {}

InitStream ==
    /\ SessionIdle
    /\ memoryTurnCount = {}
    /\ callArgs = NoCall
    /\ callResult = NoCall
    /\ nCalls = 0

\* runGameTurn up to the await of the final response
RunGameTurn ==
    /\ stream.status # "streaming"
    /\ stream.turns < MaxStreamTurns
    /\ \E reply \in Replies, callbacks \in CallbackSets :
          stream' = [status |-> "streaming",
                     turns |-> stream.turns + 1,
                     reply |-> reply,
                     text |-> ReplyText(reply),
                     callbacks |-> callbacks,
                     received |-> 0,
                     last |-> lastEmittedAtStart,
                     calls |-> NoCalls,
                     raisedAt |-> 0,
                     outcome |-> NoResult,
                     cause |-> "none",
                     lastSent |-> NoCalls,
                     everRaised |-> FALSE,
                     calledAfterRaise |-> FALSE]
    /\ UNCHANGED <<session, callArgs, callResult, nCalls>>

\* what one run of the delta handler leaves: the last-emitted variables, the
\* callback calls it made, the position of the field whose callback raised
HandlerRuns(snapshotText, last, callbacks) ==
    LET previews == {<< previewOf(PreviewFields[1], snapshotText),
                        previewOf(PreviewFields[2], snapshotText),
                        previewOf(PreviewFields[3], snapshotText) >>}
    IN { handleFields([last |-> last, calls |-> NoCalls, raisedAt |-> 0],
                      1, p, callbacks, thrower) :
            p \in previews, thrower \in {"none"} \cup SeqRange(PreviewFields) }

\* one response.output_text.delta event: the handler runs to its end
Delta ==
    /\ stream.status = "streaming"
    /\ stream.received < Len(stream.text)
    /\ \E d \in ChunkSizes :
          LET n == Min2(stream.received + d, Len(stream.text))
          IN \E h \in HandlerRuns(SubSeq(stream.text, 1, n), stream.last,
                                  stream.callbacks) :
                stream' =
                   [stream EXCEPT
                       !.received = n,
                       !.last = h.last,
                       !.calls = h.calls,
                       !.raisedAt = h.raisedAt,
                       !.status = IF h.raisedAt > 0 THEN afterHandlerThrow
                                  ELSE "streaming",
                       !.lastSent = [field \in SeqRange(PreviewFields) |->
                                        IF h.calls[field] # {} THEN h.calls[field]
                                        ELSE stream.lastSent[field]],
                       !.everRaised = stream.everRaised \/ h.raisedAt > 0,
                       !.calledAfterRaise =
                           \/ stream.calledAfterRaise
                           \/ stream.everRaised /\ h.calls # NoCalls]
    /\ UNCHANGED <<session, callArgs, callResult, nCalls>>

\* stream.finalResponse() resolves; the payload is parsed against the schema
FinalResponse ==
    /\ stream.status = "streaming"
    /\ stream.received = Len(stream.text)
    /\ LET payload == payloadOf(stream.reply)
       IN stream' = IF streamedResultOk(payload)
                    THEN [stream EXCEPT !.status = "resolved", !.outcome = payload]
                    ELSE [stream EXCEPT !.status = "rejected", !.cause = "schema"]
    /\ UNCHANGED <<session, callArgs, callResult, nCalls>>

\* stream.finalResponse() rejects before a delta has arrived
StreamError ==
    /\ stream.status = "streaming"
    /\ stream.received = 0
    /\ stream' = [stream EXCEPT !.status = "rejected", !.cause = "provider"]
    /\ UNCHANGED <<session, callArgs, callResult, nCalls>>

NextStream ==
    \/ RunGameTurn
    \/ Delta
    \/ FinalResponse
    \/ StreamError

SpecStream == InitStream /\ [][NextStream]_vars

\* ------------------------------------------------------------------ claims
Last(seq) == seq[Len(seq)]

\* C1: a turn that fails by a provider error, a schema-violating final payload
\* or the timeout wrote nothing: the stored session is what it was without it.
C1_FailedTurnWritesNothing ==
    fault \in {"provider", "schema", "timeout"} =>
        /\ turnWrites = << >>
        /\ disk = diskSansTurn

C1_Witness ==
    /\ fault = "schema"
    /\ pc = "failed"
    /\ disk # NoSave
    /\ Len(disk.history) > 0

\* C2: a successful turn wrote the store exactly once, after reconciliation
\* and consolidation were over, and the record carries the reconciled values,
\* the reconciled memories, the prior history plus the new Step, and the cursor.
C2_SuccessfulTurnWritesOnce ==
    /\ Len(turnWrites) <= 1
    /\ pc \in {"requesting", "consolidating", "backoff"} => turnWrites = << >>
    /\ pc = "done" =>
          /\ Len(turnWrites) = 1
          /\ turnWrites[1].values = updatedValues
          /\ turnWrites[1].memories = updatedMemories
          /\ turnWrites[1].history = history
          /\ Len(history) = Len(save.history) + 1
          /\ SubSeq(history, 1, Len(save.history)) = save.history
          /\ Last(history).id = nTurns
          /\ turnWrites[1].lastMemoryOverviewAtHistoryLen = nextCursor

C2_Witness ==
    /\ pc = "done"
    /\ overviewLog # << >>
    /\ Last(overviewLog) = "ok"
    /\ turnWrites[1].memories # << >>
    /\ turnWrites[1].lastMemoryOverviewAtHistoryLen > 0

\* C3: at every suspension point of a pending turn (the streaming request, the
\* consolidation call, its backoff and retry, the store write) the 120 s
\* timer is still armed, so the timeout can end the turn there.
C3_TimeoutCoversTurn ==
    isPending => timer = "armed"

\* C4: of completion and timeout the caller sees exactly one.  Once the timer
\* fired, the turn failed with the timeout and neither reconciled nor wrote,
\* also after the late reply; once the request settled first, the timer is
\* cleared and the token is never aborted.
C4_RaceHasOneWinner ==
    /\ timer = "fired" =>
          /\ pc = "failed"
          /\ fault = "timeout"
          /\ result = NoResult
          /\ history = << >>
          /\ turnWrites = << >>
          /\ disk = diskSansTurn
    /\ (pc \in {"consolidating", "backoff", "persisting", "done"}
        \/ fault \in {"provider", "schema", "store"}) =>
          /\ timer = "cleared"
          /\ ~aborted
    /\ timer \in {"armed", "unset"} => ~aborted

C4_Witness ==
    /\ timer = "fired"
    /\ orphan = "settled"
    /\ disk # NoSave

\* the moves between phases that the turn's state machine allows
PhaseSteps ==
    { <<"Requesting", "Validating">>, <<"Requesting", "Failed">>,
      <<"Validating", "Reconciling">>, <<"Validating", "Failed">>,
      <<"Reconciling", "ConsolidatingMemory">>, <<"Reconciling", "Persisting">>,
      <<"ConsolidatingMemory", "Persisting">>,
      <<"Persisting", "Done">>, <<"Persisting", "Failed">> }

\* C5: the phases of a turn follow Requesting, Validating, Reconciling,
\* optionally ConsolidatingMemory, Persisting, Done; none is entered twice;
\* Failed is entered only from Requesting, Validating or Persisting.
C5_PhaseOrder ==
    /\ pc # "idle" => phases # << >> /\ phases[1] = "Requesting"
    /\ \A i \in 1..(Len(phases) - 1) : <<phases[i], phases[i + 1]>> \in PhaseSteps
    /\ \A i, j \in 1..Len(phases) : phases[i] = phases[j] => i = j
    /\ pc = "done" <=> (phases # << >> /\ Last(phases) = "Done")
    /\ pc = "failed" <=> (phases # << >> /\ Last(phases) = "Failed")

C5_Witness ==
    phases = <<"Requesting", "Validating", "Reconciling",
               "ConsolidatingMemory", "Persisting", "Done">>

\* C6: the write of a successful turn stores the most recently persisted
\* history with exactly one new Step appended (stated for sessions in which
\* no save-writer operation ever overlapped a turn).
C6_TurnAppendsOneStep ==
    [][(pc = "persisting" /\ pc' = "done" /\ undisturbed)
         => /\ Len(disk'.history) = Len(disk.history) + 1
            /\ SubSeq(disk'.history, 1, Len(disk.history)) = disk.history]_vars

\* C7: in every persisted session 0 <= cursor <= history.length (stated for
\* sessions in which no save-writer operation ever overlapped a turn).
C7_CursorWithinHistory ==
    (disk # NoSave /\ undisturbed) =>
        /\ 0 <= disk.lastMemoryOverviewAtHistoryLen
        /\ disk.lastMemoryOverviewAtHistoryLen <= Len(disk.history)

\* the configured memory window (default 4) clamped into [1,10]
C8_Window ==
    LET configured == IF memoryTurnCount = {} THEN 4
                      ELSE CHOOSE n \in memoryTurnCount : TRUE
    IN IF configured < 1 THEN 1 ELSE IF configured > 10 THEN 10 ELSE configured

\* C8: a turn issues a consolidation call iff (new history length - stored
\* cursor, the cursor first limited to that length) >= window, the window
\* being the configured count (default 4) clamped into [1,10].
C8_OverviewIffDue ==
    result # NoResult =>
        LET len == Len(history)
            stored == save.lastMemoryOverviewAtHistoryLen
            cursor == IF stored > len THEN len ELSE stored
        IN (overviewLog # << >>) <=> (len - cursor >= C8_Window)

C8_Witness ==
    /\ result # NoResult
    /\ memoryTurnCount = {}
    /\ save.lastMemoryOverviewAtHistoryLen = 0
    /\ Len(history) = 4
    /\ overviewLog # << >>

\* C9: the consolidation request is issued at most twice in a turn; the second
\* call comes only after a first failure with the token not aborted and after
\* the backoff; a failure with the token aborted ends the attempts.
C9_OverviewAtMostTwice ==
    /\ attempts <= 2
    /\ Cardinality({i \in 1..Len(overviewLog) : overviewLog[i] = "call"}) = attempts
    /\ \A i \in 1..Len(overviewLog) :
          /\ (overviewLog[i] = "call" /\ i > 1) =>
                /\ i = 4
                /\ overviewLog[2] \in {"fail", "invalid"}
                /\ overviewLog[3] = "wait"
          /\ (overviewLog[i] = "failAborted" /\ i = 2) => Len(overviewLog) = 2

C9_Witness ==
    /\ attempts = 2
    /\ Len(overviewLog) = 5
    /\ Last(overviewLog) = "ok"

\* the consolidation attempt and its retry both failed
C10_BothFailed ==
    /\ Len(overviewLog) = 5
    /\ Last(overviewLog) \in {"fail", "invalid", "failAborted"}

\* C10: a consolidation failure never fails the turn; after the attempt and its
\* retry both failed the turn goes on to persist, with the memories reconciled
\* from the turn's own memoryChanges only and the cursor it started with.
C10_ConsolidationFailureNotFatal ==
    /\ fault # "consolidation"
    /\ (\E i \in 1..Len(overviewLog) : overviewLog[i] \in {"fail", "invalid"})
          => (pc = "failed" => fault = "store")
    /\ C10_BothFailed =>
          /\ pc \in {"persisting", "done", "failed"}
          /\ updatedMemories =
                applyChangesToMemories(save.memories, result.memoryChanges)
          /\ nextCursor = save.lastMemoryOverviewAtHistoryLen
          /\ pc = "done" =>
                /\ turnWrites[1].memories = updatedMemories
                /\ turnWrites[1].lastMemoryOverviewAtHistoryLen
                      = save.lastMemoryOverviewAtHistoryLen

C10_Witness ==
    /\ C10_BothFailed
    /\ pc = "done"
    /\ updatedMemories # << >>

\* C15: for a numeric definition with min = a and max = b (a <= b), whatever
\* the default and the raw input, the coerced result is a number in [a,b],
\* and a whole number when the definition is an integer.
C15_NumericWithinBounds ==
    (/\ nCalls >= 1
     /\ "def" \in DOMAIN callArgs
     /\ callArgs.def.type \in {"integer", "float", "number"}
     /\ callArgs.def.min # {}
     /\ callArgs.def.max # {})
    => /\ callResult.t = "number"
       /\ \A a \in callArgs.def.min : a <= callResult.num
       /\ \A b \in callArgs.def.max : callResult.num <= b
       /\ callArgs.def.type = "integer" => callResult.num % 2 = 0

\* C16: coerce is idempotent: coercing the result of a coercion again, under
\* the same definition, returns that result.
C16_CoerceIdempotent ==
    (nCalls = 2 /\ "def" \in DOMAIN callArgs) => callResult = callArgs.value

\* C17: for an array definition with maxLength = k > 0, whatever the default
\* and the raw input, the coerced result is a sequence of scalars of length
\* at most k.
C17_ArrayWithinMaxLength ==
    (/\ nCalls >= 1
     /\ "def" \in DOMAIN callArgs
     /\ callArgs.def.type = "array"
     /\ callArgs.def.maxLength # {})
    => /\ callResult.t = "array"
       /\ \A k \in callArgs.def.maxLength : Len(callResult.items) <= k
       /\ \A i \in 1..Len(callResult.items) : IsScalar(callResult.items[i])

\* C18: the batch value update changes only the entries named by a change
\* whose valueId the active template defines: an unknown valueId adds and
\* alters no key, every key not named by a known change keeps its value, and
\* of several changes to one id the last in input order decides the value.
C18_BatchUpdateFrame ==
    (nCalls = 1 /\ "currentValues" \in DOMAIN callArgs) =>
        LET defs == callArgs.template.valueDefinitions
            known == {defs[i].id : i \in 1..Len(defs)}
            changes == callArgs.changes
            named == {changes[i].valueId : i \in 1..Len(changes)} \cap known
            lastOf(id) == CHOOSE i \in 1..Len(changes) :
                             /\ changes[i].valueId = id
                             /\ \A j \in 1..Len(changes) :
                                   changes[j].valueId = id => j <= i
            defOf(id) == CHOOSE d \in SeqRange(defs) : d.id = id
        IN /\ DOMAIN callResult = (DOMAIN callArgs.currentValues) \cup named
           /\ \A id \in (DOMAIN callArgs.currentValues) \ named :
                 callResult[id] = callArgs.currentValues[id]
           /\ \A id \in named :
                 callResult[id] =
                    coerceValueForType(defOf(id), {changes[lastOf(id)].next})

C18_Witness ==
    /\ nCalls = 1
    /\ "currentValues" \in DOMAIN callArgs
    /\ callArgs.changes = << [valueId |-> "hp", next |-> 5],
                             [valueId |-> "zz", next |-> 4],
                             [valueId |-> "hp", next |-> -1] >>
    /\ callArgs.currentValues = [id \in {"hp", "old"} |-> IF id = "hp" THEN 2 ELSE 7]
    /\ callResult = [id \in {"hp", "old"} |-> IF id = "hp" THEN 0 ELSE 7]

\* a memory list as the session may hold it: at most 50 entries, ids pairwise
\* distinct, no entry with an empty text
MemoriesWellFormed(list) ==
    /\ Len(list) <= 50
    /\ \A i, j \in 1..Len(list) : list[i].id = list[j].id => i = j
    /\ \A i \in 1..Len(list) : list[i].text # << >>

\* C11: the memory list a session holds has at most 50 entries, pairwise
\* distinct ids and no empty text: the stored list has, and the reconciler
\* returns such a list whenever it is given one.
C11_MemoriesWellFormed ==
    /\ disk # NoSave => MemoriesWellFormed(disk.memories)
    /\ (nCalls = 1 /\ "currentMemories" \in DOMAIN callArgs) =>
          MemoriesWellFormed(callResult)

C11_Witness ==
    /\ nCalls = 1
    /\ "currentMemories" \in DOMAIN callArgs
    /\ Len(callArgs.currentMemories) = 50
    /\ callArgs.changes = << AddChange({EntryId(1)}, TextB), AddChange({}, TextB) >>
    /\ Len(callResult) = 50

\* the list the reconciler's loop leaves before the cap is applied
PreCap == applyMemoryChanges(
              [updated |-> callArgs.currentMemories,
               ids |-> {e.id : e \in SeqRange(callArgs.currentMemories)}],
              callArgs.changes).updated

\* ids of the list in order, those outside keep left out
IdsWithin(list, keep) ==
    LET ids == [i \in 1..Len(list) |-> list[i].id]
    IN SelectSeq(ids, LAMBDA id : id \in keep)

\* C19: when the list produced by applying all changes has more than 50
\* entries the reconciler returns exactly its last 50, in order; an update
\* leaves every entry at its position, so eviction goes by position only.
C19_CapKeepsLastByPosition ==
    (nCalls = 1 /\ "currentMemories" \in DOMAIN callArgs) =>
        LET removed == {Trim(OrElse(c.id, << >>)) :
                           c \in {d \in SeqRange(callArgs.changes) : d.op = "remove"}}
            kept == {e.id : e \in SeqRange(callArgs.currentMemories)} \ removed
        IN /\ Len(PreCap) > 50 =>
                 callResult = SubSeq(PreCap, Len(PreCap) - 49, Len(PreCap))
           /\ Len(PreCap) <= 50 => callResult = PreCap
           /\ \A i \in 1..Cardinality(kept) :
                 PreCap[i].id = IdsWithin(callArgs.currentMemories, kept)[i]

C19_Witness ==
    /\ nCalls = 1
    /\ "currentMemories" \in DOMAIN callArgs
    /\ Len(callArgs.currentMemories) = 50
    /\ callArgs.changes = << UpdateChange(EntryId(1), TextB), AddChange({}, TextB) >>
    /\ Len(callResult) = 50
    /\ callResult[1].id = EntryId(2)
    /\ \A i \in 1..Len(callResult) : callResult[i].id # EntryId(1)

\* the list after the first n changes of the batch
AfterChanges(n) ==
    applyMemoryChanges(
        [updated |-> callArgs.currentMemories,
         ids |-> {e.id : e \in SeqRange(callArgs.currentMemories)}],
        SubSeq(callArgs.changes, 1, n)).updated

\* C20: an add whose trimmed text is not empty appends exactly one entry at
\* the end; the entry has the incoming id when that id is not empty and no
\* entry of the list holds it at that moment, and otherwise an id no entry
\* holds; so a list with distinct ids stays a list with distinct ids.
C20_AddAppendsWithUnusedId ==
    (nCalls = 1 /\ "currentMemories" \in DOMAIN callArgs) =>
        /\ \A n \in 1..Len(callArgs.changes) :
              LET change == callArgs.changes[n]
                  before == AfterChanges(n - 1)
                  after == AfterChanges(n)
                  held == {e.id : e \in SeqRange(before)}
                  text == Trim(OrElse(change.text, << >>))
                  incoming == Trim(OrElse(change.id, << >>))
              IN (change.op = "add" /\ text # << >>) =>
                    /\ Len(after) = Len(before) + 1
                    /\ SubSeq(after, 1, Len(before)) = before
                    /\ after[Len(after)].text = text
                    /\ IF incoming # << >> /\ incoming \notin held
                       THEN after[Len(after)].id = incoming
                       ELSE after[Len(after)].id \notin held
        /\ \A i, j \in 1..Len(callResult) :
              callResult[i].id = callResult[j].id => i = j

C20_Witness ==
    /\ nCalls = 1
    /\ "currentMemories" \in DOMAIN callArgs
    /\ Len(callArgs.currentMemories) = 1
    /\ callArgs.changes = << RemoveChange(EntryId(1)), AddChange({EntryId(1)}, TextB) >>
    /\ callResult = << [id |-> EntryId(1), text |-> TextB, tags |-> << >>,
                        createdAt |-> now, updatedAt |-> now] >>

\* C12: the stored values have an entry for every id the template or the
\* session defines (stated for sessions in which no save-writer operation
\* ever overlapped a turn).
C12_ValuesCoverDefinitions ==
    (disk # NoSave /\ undisturbed) =>
        LET defs == buildEffectiveTemplate(Template, disk).valueDefinitions
        IN \A i \in 1..Len(defs) : defs[i].id \in DOMAIN disk.values

\* C13: each stateChanges entry of the Step a turn appends names a value the
\* turn changed (an id the active template defines), with previous the
\* session's value before the turn and next the value stored after it.
C13_StepRecordsCoercedChanges ==
    result # NoResult =>
        LET step == Last(history)
            defs == buildEffectiveTemplate(Template, save).valueDefinitions
            known == {defs[i].id : i \in 1..Len(defs)}
        IN \A i \in 1..Len(step.stateChanges) :
              LET entry == step.stateChanges[i]
              IN /\ entry.valueId \in known
                 /\ entry.previous = {save.values[entry.valueId]}
                 /\ entry.next = updatedValues[entry.valueId]

\* C14: a rewind to step k stores the first k steps as the history and gives
\* every value that was stored just before step k was taken the value it
\* had then (stated for sessions in which no save-writer operation ever
\* overlapped a turn).
C14_RewindRestoresValues ==
    [][(UiWrite /\ uiOp.kind = "rewind" /\ undisturbed) =>
          LET k == Len(disk'.history)
          IN /\ k < Len(disk.history)
             /\ disk'.history = SubSeq(disk.history, 1, k)
             /\ LET before == valuesBefore[disk.history[k + 1].id]
                IN \A id \in DOMAIN before :
                      /\ id \in DOMAIN disk'.values
                      /\ disk'.values[id] = before[id]]_vars

\* a change the reconciler has nothing to do for, given the list: a remove or
\* an update with an empty trimmed id or an id no entry holds, an add with an
\* empty trimmed text
C21_NoOpChange(list, change) ==
    LET id == Trim(OrElse(change.id, << >>))
        held == {list[i].id : i \in 1..Len(list)}
    IN \/ change.op \in {"remove", "update"} /\ (id = << >> \/ id \notin held)
       \/ change.op = "add" /\ Trim(OrElse(change.text, << >>)) = << >>

\* C21: for a list of at most 50 entries, a batch made of removes and updates
\* whose trimmed id is empty or matches no entry and of adds whose trimmed
\* text is empty returns the list as it was: same entries, order, text, tags
\* and timestamps.
C21_MalformedChangesAreNoOps ==
    (/\ nCalls = 1
     /\ "currentMemories" \in DOMAIN callArgs
     /\ Len(callArgs.currentMemories) <= 50
     /\ \A n \in 1..Len(callArgs.changes) :
           C21_NoOpChange(callArgs.currentMemories, callArgs.changes[n]))
        => callResult = callArgs.currentMemories

C21_Witness ==
    /\ nCalls = 1
    /\ "currentMemories" \in DOMAIN callArgs
    /\ Len(callArgs.currentMemories) = 50
    /\ callArgs.changes = << UpdateChange(MemId1, TextB), RemoveChange(Blank) >>
    /\ callResult = callArgs.currentMemories

\* the elements of the streamed reply whose closing brace is among the first
\* n characters, in order
C22_ElementsReceived(n) ==
    LET elements == stream.reply.stateChanges
        head == Len(ChangesHead(stream.reply))
        endOf(k) == head + Len(Join([j \in 1..k |-> elements[j].text], <<",">>))
        arrived == {k \in 1..Len(elements) : endOf(k) <= n}
    IN [k \in 1..Cardinality(arrived) |-> elements[k].value]

\* C22: for a snapshot that holds the key and the opening bracket, the
\* object-array extractor returns exactly the elements whose closing brace has
\* been received, in order, whatever the elements hold (strings with braces
\* and brackets, nested objects, arrays of scalars).
C22_ObjectsWhoseBraceArrived ==
    (stream.status = "streaming"
     /\ stream.received >= Len(ChangesHead(stream.reply))) =>
        extractJsonObjectArrayFieldPreview(
            SubSeq(stream.text, 1, stream.received), stateChangesField)
          = {C22_ElementsReceived(stream.received)}

\* the narrative the reply's text holds in its first n characters: null while
\* the opening quote is missing, then the characters of the units received whole
C23_NarrativeReceived(n) ==
    IF stream.reply.narrative = {} \/ n < Len(NarrativeHead) THEN {}
    ELSE LET units == CHOOSE u \in stream.reply.narrative : TRUE
             endOf(k) == Len(NarrativeHead) + Len(UnitsText(SubSeq(units, 1, k)))
             whole == {k \in 1..Len(units) : endOf(k) <= n}
         IN {UnitsMeant(SubSeq(units, 1, Cardinality(whole)))}

C23_IsPrefix(a, b) == Len(a) <= Len(b) /\ a = SubSeq(b, 1, Len(a))

\* C23: over the cumulative snapshots of a reply, the string-field extractor
\* returns null until key, colon and opening quote have arrived, then the
\* characters decoded so far (a cut-off escape adds nothing), each result a
\* prefix of the next, and the same complete value from the snapshot that holds
\* the closing quote onward.
C23_StringPreviewGrows ==
    [][(stream.status = "streaming" /\ stream'.status = "streaming"
        /\ stream'.received > stream.received) =>
          LET before == extractJsonStringFieldPreview(
                            SubSeq(stream.text, 1, stream.received), narrativeField)
              after == extractJsonStringFieldPreview(
                            SubSeq(stream.text, 1, stream'.received), narrativeField)
              closedAt == Len(OptionsHead(stream.reply)) - 1
          IN /\ after = C23_NarrativeReceived(stream'.received)
             /\ before # {} =>
                   /\ after # {}
                   /\ \A b \in before, a \in after : C23_IsPrefix(b, a)
             /\ (stream.reply.narrative # {} /\ stream.received >= closedAt) =>
                   /\ after = before
                   /\ after = payloadOf(stream.reply).narrative]_vars

\* a snapshot that ends inside the \u escape of the narrative: the characters
\* before the escape are returned, the escape's are not
C23_Witness ==
    /\ stream.status = "streaming"
    /\ stream.reply.narrative # {}
    /\ stream.received = Len(NarrativeHead) + 6
    /\ SubSeq(stream.text, stream.received - 2, stream.received)
          = <<Backslash, "u", "0">>
    /\ extractJsonStringFieldPreview(
           SubSeq(stream.text, 1, stream.received), narrativeField)
         = {<<"a", Quote>>}

\* the fields whose part of the handler ran in the delta just handled: those
\* with a callback, up to the one whose callback raised
C24_Reached(k) ==
    /\ PreviewFields[k] \in stream'.callbacks
    /\ stream'.raisedAt = 0 \/ k <= stream'.raisedAt

\* one delta forwards, for every field reached, the value extracted from the
\* new snapshot exactly when it is not null and differs from lastForwarded
C24_ForwardedExactlyOnChange(lastForwarded) ==
    (stream.status = "streaming" /\ stream'.status = "streaming"
     /\ stream'.received > stream.received) =>
        \A k \in 1..Len(PreviewFields) :
           C24_Reached(k) =>
              LET field == PreviewFields[k]
                  value == previewOf(field,
                                     SubSeq(stream.text, 1, stream'.received))
              IN /\ stream'.calls[field] =
                        (IF value # {} /\ value # lastForwarded[field]
                         THEN value ELSE {})
                 /\ stream'.calls[field] # {} =>
                        stream'.calls[field] # stream.lastSent[field]

C24_LastForwarded ==
    [field \in SeqRange(PreviewFields) |->
        IF field = "narrative" /\ stream.lastSent[field] = {} THEN {<< >>}
        ELSE stream.lastSent[field]]

C26_TurnInFlight ==
    /\ phases # << >>
    /\ phases[Len(phases)] \notin {"Done", "Failed"}

\* C26: while a turn is pending no step starts another one, so at most one
\* turn is in flight; a turn starts only from a state with none in flight.
C26_OneTurnAtATime ==
    [][/\ C26_TurnInFlight => nTurns' = nTurns
       /\ nTurns' # nTurns =>
             /\ ~C26_TurnInFlight
             /\ nTurns' = nTurns + 1
             /\ phases' = <<"Requesting">>]_vars

\* the second turn is pending, a session is displayed and more turns may be
\* submitted: the pending check alone keeps handleAdvance from starting one
C26_Witness ==
    /\ nTurns = 2
    /\ nTurns < MaxTurnsAlone
    /\ resolvedSave # NoSave
    /\ isPending
    /\ C26_TurnInFlight
    /\ pc = "consolidating"

\* C27: a successful consolidation reply is applied to the list already
\* reconciled with the turn's own memoryChanges (turn changes first,
\* consolidation changes second) and the turn then persists that list with
\* the cursor at the new history length; a turn in which consolidation is not
\* due makes no consolidation request and persists the cursor it started with.
C27_ConsolidationFoldedIn ==
    [][/\ (pc = "consolidating" /\ pc' = "persisting"
           /\ overviewLog'[Len(overviewLog')] = "ok") =>
             /\ \E payload \in OverviewPayloads :
                   /\ memoryOverviewResultSchemaOk(payload)
                   /\ updatedMemories' =
                         applyChangesToMemories(
                             applyChangesToMemories(save.memories,
                                                    result.memoryChanges),
                             OrElse(payload.memoryChanges, << >>))
             /\ nextCursor' = Len(history)
       /\ (pc = "persisting" /\ pc' = "done") =>
             /\ (overviewLog # << >> /\ overviewLog[Len(overviewLog)] = "ok") =>
                   /\ disk'.memories = updatedMemories
                   /\ disk'.history = history
                   /\ disk'.lastMemoryOverviewAtHistoryLen = Len(disk'.history)
             /\ ~shouldRunOverview(Len(history),
                                   save.lastMemoryOverviewAtHistoryLen,
                                   memoryTurnCount) =>
                   /\ overviewLog = << >>
                   /\ attempts = 0
                   /\ disk'.lastMemoryOverviewAtHistoryLen =
                         save.lastMemoryOverviewAtHistoryLen]_vars

\* every consolidation attempt of the turn failed
C28_AllAttemptsFailed ==
    /\ overviewLog # << >>
    /\ overviewLog[Len(overviewLog)] \in {"fail", "invalid", "failAborted"}

\* history length minus cursor, the cursor first limited to that length
C28_Gap(historyLen, cursor) ==
    historyLen - (IF cursor > historyLen THEN historyLen ELSE cursor)

\* C28: the session a successful turn persists has (history length - cursor)
\* >= window only if the turn attempted consolidation and every attempt
\* failed; the next turn started on the session that turn persisted finds
\* consolidation due, and a turn that finds it due requests it.
C28_ConsolidationNotSkippedForGood ==
    [][/\ (pc = "persisting" /\ pc' = "done"
           /\ Len(disk'.history) - disk'.lastMemoryOverviewAtHistoryLen
                 >= C8_Window) =>
             C28_AllAttemptsFailed
       /\ (pc = "done" /\ pc' = "requesting" /\ C28_AllAttemptsFailed
           /\ turnWrites # << >> /\ disk = turnWrites[Len(turnWrites)]) =>
             C28_Gap(Len(save'.history) + 1,
                     save'.lastMemoryOverviewAtHistoryLen) >= C8_Window
       /\ (pc = "requesting" /\ result' # NoResult
           /\ C28_Gap(Len(save.history) + 1,
                      save.lastMemoryOverviewAtHistoryLen) >= C8_Window) =>
             /\ overviewLog' = <<"call">>
             /\ pc' = "consolidating"]_vars

\* C29: the session a rewind, a history edit or a run-value save persists
\* holds the memory list of the session persisted just before it, so the
\* memories a turn persisted are still there after any such writes.
C29_SessionWritesKeepMemories ==
    [][(saveWriterIsPending /\ uiOp' = NoOp /\ disk' # disk) =>
          /\ uiOp.kind \in {"rewind", "edit", "runValues"}
          /\ uiOp.draft.memories = {}
          /\ disk'.memories = disk.memories
          /\ turnWrites # << >> /\ pc = "done" =>
                disk'.memories = turnWrites[Len(turnWrites)].memories]_vars

\* a save-writer operation was persisted after this turn had started: the
\* session view holds its record, and the turn runs on another one
C30_WrittenWhilePending ==
    /\ isPending
    /\ ~saveWriterIsPending
    /\ localSaveOverride # NoSave
    /\ localSaveOverride # save
    /\ diskSansTurn = localSaveOverride

\* C30: when a rewind, a history edit or a run-value save was persisted while
\* the turn was pending, the session the turn persists still reflects it: its
\* history is the written history, with at most the turn's step appended (no
\* removed step reappears, an edited step stays edited), it keeps the written
\* run-only definitions, and the written values stand wherever the turn's
\* reply changed nothing.
C30_WriteNotLostToTurn ==
    [][(pc = "persisting" /\ pc' = "done" /\ C30_WrittenWhilePending) =>
          LET written == localSaveOverride
              n == Len(written.history)
              touched == {result.stateChanges[i].valueId :
                             i \in 1..Len(result.stateChanges)}
          IN /\ Len(disk'.history) \in {n, n + 1}
             /\ SubSeq(disk'.history, 1, n) = written.history
             /\ disk'.sessionValueDefinitions = written.sessionValueDefinitions
             /\ \A id \in DOMAIN written.values \ touched :
                   /\ id \in DOMAIN disk'.values
                   /\ disk'.values[id] = written.values[id]]_vars

====
